---- MODULE Spec2Model ----
(***************************************************************************)
(* A model of the grok_trading_app pipeline: the scheduler loop and run()  *)
(* of main.py, the fetchers of bybit.py and data_fetcher.py, the signal    *)
(* extractor and chart fallback of charts.py and the delivery calls of     *)
(* telegram.py.                                                            *)
(*                                                                         *)
(* Six specifications share the module:                                    *)
(*   Spec         the scheduler loop and one run() per tick                *)
(*   SpecExtract  extract_trading_levels on bounded response texts         *)
(*   SpecSeries   one provider payload through sort, indicators and trim   *)
(*   SpecReport   format_ai_output and send_message on one response        *)
(*   SpecRender   the PNG step of generate_charts, statement by statement  *)
(*   SpecAuth     the token handling and the operations of IBKRAPI         *)
(***************************************************************************)
EXTENDS Integers, Sequences, FiniteSets, TLC

VARIABLES
    \* ---- Spec: main.py ----
    loop,        \* "running" | "crashed": the while True loop of __main__
    pc,          \* position inside run(): "idle","ask","chart","format","send"
    ticks,       \* number of ticks started so far
    provider,    \* the (contxt, exchange) branch run() was scheduled with
    data,        \* json_data returned by the fetcher, a sequence of payloads
    idx,         \* index in data of the symbol being processed
    analysis,    \* ask_grok's text for the current symbol
    chartResult, \* generate_charts' return value for the current symbol
    formatted,   \* format_ai_output's return value for the current symbol
    sent,        \* the posts made to the channel during the current tick
    error,       \* the exception that left run(), if any
    failed,      \* history: symbols whose own pipeline failed in this tick
    lastRender,  \* history: how the PNG step of the last generate_charts went
    \* ---- SpecExtract: charts.py extract_trading_levels ----
    xtext,       \* the response text, a sequence of tokens
    xpc,         \* "start" | "phase2" | "returned" | "raised"
    xres,        \* the 7-tuple returned
    xphase2,     \* TRUE once the regex fallback has run
    \* ---- SpecSeries: the fetchers' per-payload pipeline ----
    sprov,       \* "bybit" | "twelvedata"
    raw,         \* the bars as delivered by the provider
    rawComma,    \* TRUE when the payload writes prices with a decimal comma
    spc,         \* "fetched","sorted","indicators","done","prompted","chart",
                 \* "raised"
    series,      \* the rows of the DataFrame df
    chartDf,     \* the rows generate_charts draws (extract_df, tail(20))
    \* ---- SpecReport: charts.py format_ai_output, telegram.py send_message ----
    rtext,       \* the analysis text
    rmode,       \* AI_OUTPUT_MODE: "signal" | "detailed" | "both"
    rflags,      \* SIGNAL_FORMAT
    rparse,      \* the parse_mode send_message is called with, or "none"
    rpc,         \* "start","formatted","raised","sent","send_raised"
    rout,        \* the text format_ai_output returned
    rposts,      \* the posts send_message made
    rret,        \* the ok of the response send_message returned
    \* ---- SpecRender: charts.py generate_charts, lines 309-394 ----
    gtext,       \* the analysis text generate_charts was called with
    gpc,         \* the statement generate_charts is at
    playwright,  \* "none" | "running" | "stopped": the sync_playwright driver
    browser,     \* "none" | "open" | "closed": the chromium it launched
    tempHtml,    \* TRUE while /tmp/chart_<timestamp>.html exists
    gresult,     \* what generate_charts returned
    gcalls,      \* number of calls of generate_charts so far
    leftover,    \* temporary HTML files of earlier calls still on disk
    \* ---- SpecAuth: ibkr_api.py IBKRAPI ----
    access_token,     \* self.access_token
    refresh_token,    \* self.refresh_token
    token_expires_at, \* self.token_expires_at
    now,              \* datetime.now()
    acall             \* history: the last operation called and what it sent

tickVars == <<loop, pc, ticks, provider, data, idx, analysis, chartResult,
              formatted, sent, error, failed, lastRender>>
extractVars == <<xtext, xpc, xres, xphase2>>
seriesVars == <<sprov, raw, rawComma, spc, series, chartDf>>
reportVars == <<rtext, rmode, rflags, rparse, rpc, rout, rposts, rret>>
renderVars == <<gtext, gpc, playwright, browser, tempHtml, gresult, gcalls,
                leftover>>
authVars == <<access_token, refresh_token, token_expires_at, now, acall>>
vars == <<tickVars, extractVars, seriesVars, reportVars, renderVars, authVars>>

(***************************************************************************)
(* Bounds of the model.                                                    *)
(***************************************************************************)
MaxSegs == 3
MaxTicks == 2
MaxLen == 3
MaxTs == 3
MaxPrice == 2
MaxExtra == 2
MaxCharts == 3
\* The clock of the IBKR client, in minutes, stops at MaxNow.
MaxNow == 70
\* A token lifetime, in minutes, shorter than the refresh margin.
ShortExpiresIn == 3

Max(a, b) == IF a >= b THEN a ELSE b
Min(a, b) == IF a <= b THEN a ELSE b

(***************************************************************************)
(* config.py                                                               *)
(***************************************************************************)
SYMBOLS == <<"EUR/USD", "XAU/USD">>
COINS == <<"BTC/USD", "ETH/USD", "SOL/USD">>
COINS_BYBIT == <<"BTCUSDT", "ETHUSDT", "SOLUSDT">>
EMA_PERIODS == <<20, 50, 200>>
RSI_PERIOD == 14
VOLATILITY_PERIOD == 20
SMA_LENGTH == 20
AI_OUTPUT_MODE == "both"
SIGNAL_FORMAT == [entry |-> TRUE, stoploss |-> TRUE, tp1 |-> TRUE,
                  tp2 |-> TRUE, tp3 |-> TRUE]

(***************************************************************************)
(* Python values that a field of the extracted 7-tuple can hold.  A number *)
(* n stands for the decimal n / 100.                                       *)
(***************************************************************************)
None == [t |-> "none", n |-> 0, s |-> ""]
Num(x) == [t |-> "num", n |-> x, s |-> ""]
Str(x) == [t |-> "str", n |-> 0, s |-> x]
Obj == [t |-> "obj", n |-> 0, s |-> ""]
Missing == [t |-> "missing", n |-> 0, s |-> ""]
\* Two JSON values json.loads does not decode: an array nested deeper than
\* the interpreter's recursion limit (RecursionError) and an integer
\* literal of more digits than int() converts (ValueError).
Deep == [t |-> "deep", n |-> 0, s |-> ""]
BigInt == [t |-> "bigint", n |-> 0, s |-> ""]

\* Python truthiness of a value (the `if entry:` tests).
Truthy(v) ==
    CASE v.t = "none" -> FALSE
      [] v.t = "num" -> v.n # 0
      [] v.t = "str" -> v.s # ""
      [] OTHER -> TRUE

\* str.upper() on the strings the model uses.
Upper(s) ==
    CASE s = "buy" -> "BUY"
      [] s = "Sell" -> "SELL"
      [] s = "hold" -> "HOLD"
      [] s = "strong buy" -> "STRONG BUY"
      [] OTHER -> s

(***************************************************************************)
(* Response texts.  A text is a sequence of tokens: the braces and members *)
(* of a JSON object, markdown labels, whitespace runs, number literals     *)
(* (kept as their characters) and words.                                   *)
(***************************************************************************)
Tok(kind, name, bold, val, chars) ==
    [k |-> kind, name |-> name, bold |-> bold, val |-> val, chars |-> chars]
LBrace == Tok("lbrace", "", FALSE, None, <<>>)
RBrace == Tok("rbrace", "", FALSE, None, <<>>)
\* "key": value  (a member of a JSON object)
KV(key, v) == Tok("kv", key, FALSE, v, <<>>)
\* "key":  followed by a nested object
Key(key) == Tok("key", key, FALSE, None, <<>>)
\* **NAME**:  or  NAME:
Label(name, bold) == Tok("label", name, bold, None, <<>>)
\* a run of whitespace; chars holds " " and "nl"
WS(chars) == Tok("ws", "", FALSE, None, chars)
NumTok(chars) == Tok("num", "", FALSE, None, chars)
Word(w) == Tok("word", w, FALSE, None, <<>>)

Digits == {"0", "1", "2", "3", "4", "5", "6", "7", "8", "9"}
DigitVal(c) ==
    CASE c = "0" -> 0 [] c = "1" -> 1 [] c = "2" -> 2 [] c = "3" -> 3
      [] c = "4" -> 4 [] c = "5" -> 5 [] c = "6" -> 6 [] c = "7" -> 7
      [] c = "8" -> 8 [] c = "9" -> 9

\* re.IGNORECASE on the label and signal words the model uses.
UpperWord(w) ==
    CASE w \in {"ENTRY", "Entry", "entry"} -> "ENTRY"
      [] w \in {"SIGNAL", "Signal", "signal"} -> "SIGNAL"
      [] w \in {"STOP LOSS", "Stop Loss", "stop loss"} -> "STOP LOSS"
      [] w \in {"SL", "sl"} -> "SL"
      [] w \in {"TP1", "tp1"} -> "TP1"
      [] w \in {"TP2", "tp2"} -> "TP2"
      [] w \in {"TP3", "tp3"} -> "TP3"
      [] w \in {"BUY", "Buy", "buy"} -> "BUY"
      [] w \in {"SELL", "Sell", "sell"} -> "SELL"
      [] w \in {"HOLD", "Hold", "hold"} -> "HOLD"
      [] OTHER -> w

(***************************************************************************)
(* Phase 1: re.search(r'\{.*\}', text, re.DOTALL) and json.loads.          *)
(***************************************************************************)
JsonKeys == {"signal", "entry", "stop_loss", "tp1", "tp2", "tp3",
             "probability", "reason"}
EmptyDict == [key \in JsonKeys |-> Missing]

Positions(text, kind) == {i \in 1..Len(text) : text[i].k = kind}
SetMin(S) == CHOOSE x \in S : \A y \in S : x <= y
SetMax(S) == CHOOSE x \in S : \A y \in S : x >= y

\* The greedy match: from the first "{" to the last "}" of the text.
JsonMatch(text) ==
    LET opens == Positions(text, "lbrace")
        closes == Positions(text, "rbrace")
    IN  IF opens = {} \/ closes = {} \/ SetMax(closes) < SetMin(opens)
        THEN [found |-> FALSE, str |-> <<>>]
        ELSE [found |-> TRUE,
              str |-> SubSeq(text, SetMin(opens), SetMax(closes))]

\* What json.loads gives: the dict, or the exception raised.
Decoded(dict, next) == [ok |-> TRUE, exc |-> "none", next |-> next, dict |-> dict]
DecodeError(exc) == [ok |-> FALSE, exc |-> exc, next |-> 0, dict |-> EmptyDict]

\* The exception raised while a member's value is decoded, if any.
ValueRaises(v) ==
    CASE v.t = "deep" -> "RecursionError"
      [] v.t = "bigint" -> "ValueError"
      [] OTHER -> "none"

\* json.loads on an object: parse the members from position i on, left to
\* right; the result is the position after the closing brace and the dict
\* read (a repeated key keeps its last value), or the exception raised.
RECURSIVE ParseMembers(_, _, _)
ParseInner(s, i, dict, inner) ==
    IF inner.ok
    THEN ParseMembers(s, inner.next, [dict EXCEPT ![s[i].name] = Obj])
    ELSE DecodeError(inner.exc)

ParseMembers(s, i, dict) ==
    IF i > Len(s) THEN DecodeError("JSONDecodeError")
    ELSE CASE s[i].k = "rbrace" -> Decoded(dict, i + 1)
           [] s[i].k = "kv" ->
                IF ValueRaises(s[i].val) # "none"
                THEN DecodeError(ValueRaises(s[i].val))
                ELSE ParseMembers(s, i + 1,
                                  [dict EXCEPT ![s[i].name] = s[i].val])
           [] s[i].k = "key" ->
                IF i + 1 <= Len(s) /\ s[i + 1].k = "lbrace"
                THEN ParseInner(s, i, dict, ParseMembers(s, i + 2, EmptyDict))
                ELSE DecodeError("JSONDecodeError")
           [] OTHER -> DecodeError("JSONDecodeError")

\* The "Extra data" test: text after the object is a JSONDecodeError too.
WholeString(s, r) ==
    IF r.ok /\ r.next # Len(s) + 1 THEN DecodeError("JSONDecodeError") ELSE r

\* json.loads(json_str): the whole string must be one object.
JsonLoads(s) ==
    IF Len(s) = 0 \/ s[1].k # "lbrace" THEN DecodeError("JSONDecodeError")
    ELSE WholeString(s, ParseMembers(s, 2, EmptyDict))

\* dict.get(key): None for an absent key and for a JSON null.
DictGet(dict, key) ==
    IF dict[key].t = "missing" THEN None ELSE dict[key]

\* dict.get(key, default)
DictGetDefault(dict, key, default) ==
    IF dict[key].t = "missing" THEN default ELSE dict[key]

NoLevels == [entry |-> None, tp1 |-> None, tp2 |-> None, tp3 |-> None,
             sl |-> None, signal |-> None, probability |-> None]

\* Lines 87-96: the fields read by key.  data.get('signal', '').upper()
\* raises AttributeError when the value stored is not a string.
ReadJsonFields(dict) ==
    LET sig == DictGetDefault(dict, "signal", Str(""))
    IN  IF sig.t # "str"
        THEN [raised |-> "AttributeError", levels |-> NoLevels]
        ELSE [raised |-> "none",
              levels |-> [entry |-> DictGet(dict, "entry"),
                          tp1 |-> DictGet(dict, "tp1"),
                          tp2 |-> DictGet(dict, "tp2"),
                          tp3 |-> DictGet(dict, "tp3"),
                          sl |-> DictGet(dict, "stop_loss"),
                          signal |-> Str(Upper(sig.s)),
                          probability |-> DictGet(dict, "probability")]]

\* The exceptions the try block of lines 69-101 catches.
Phase1Caught == {"JSONDecodeError", "AttributeError"}

\* Lines 69-101.  outcome "return": the tuple is returned from inside the
\* try block; "fallback": control reaches the regex code; "raise": an
\* exception escapes the function.
Fallback == [outcome |-> "fallback", levels |-> NoLevels]

\* An exception raised inside the try block.
Phase1Except(exc) ==
    IF exc \in Phase1Caught THEN Fallback
    ELSE [outcome |-> "raise", levels |-> NoLevels]

\* Lines 87-96, read being what reading the fields gave.
Phase1Read(read) ==
    IF read.raised = "none" THEN [outcome |-> "return", levels |-> read.levels]
    ELSE Phase1Except(read.raised)

\* Line 76, parsed being what json.loads gave.
Phase1Parsed(parsed) ==
    IF parsed.ok THEN Phase1Read(ReadJsonFields(parsed.dict))
    ELSE Phase1Except(parsed.exc)

\* Lines 73-75, m being what re.search gave.
Phase1Match(m) ==
    IF m.found THEN Phase1Parsed(JsonLoads(m.str)) ELSE Fallback

Phase1(text) == Phase1Match(JsonMatch(text))

(***************************************************************************)
(* Phase 2: the regex fallback, lines 114-182.                             *)
(***************************************************************************)
\* One pattern: the label it starts with (bold: written between ** **),
\* and the least number of newlines its whitespace part asks for
\* (\s* asks for none, \s*\n\s* for one, \s*\n\s*\n\s* for two).
Pat(label, bold, nls) == [label |-> label, bold |-> bold, nls |-> nls]

patterns ==
    [signal |-> <<Pat("SIGNAL", TRUE, 0), Pat("SIGNAL", FALSE, 0),
                  Pat("SIGNAL", FALSE, 0)>>,
     entry |-> <<Pat("ENTRY", TRUE, 0), Pat("ENTRY", FALSE, 0),
                 Pat("ENTRY", FALSE, 0), Pat("ENTRY", TRUE, 1),
                 Pat("ENTRY", TRUE, 2)>>,
     tp1 |-> <<Pat("TP1", TRUE, 0), Pat("TP1", FALSE, 0),
               Pat("TP1", TRUE, 1), Pat("TP1", TRUE, 2)>>,
     tp2 |-> <<Pat("TP2", TRUE, 0), Pat("TP2", FALSE, 0),
               Pat("TP2", TRUE, 1), Pat("TP2", TRUE, 2)>>,
     tp3 |-> <<Pat("TP3", TRUE, 0), Pat("TP3", FALSE, 0),
               Pat("TP3", TRUE, 1), Pat("TP3", TRUE, 2)>>,
     sl |-> <<Pat("STOP LOSS", TRUE, 0), Pat("STOP LOSS", FALSE, 0),
              Pat("STOP LOSS", FALSE, 0), Pat("SL", FALSE, 0),
              Pat("STOP LOSS", TRUE, 1), Pat("STOP LOSS", TRUE, 2)>>]

\* The order in which `for field, pattern_list in patterns.items()` runs.
FieldOrder == <<"signal", "entry", "tp1", "tp2", "tp3", "sl">>

\* Length of the longest prefix of chars, from position i, made of S.
RECURSIVE RunLen(_, _, _)
RunLen(chars, i, S) ==
    IF i > Len(chars) \/ chars[i] \notin S THEN 0
    ELSE 1 + RunLen(chars, i + 1, S)

\* Number of newlines in the whitespace tokens from position i on, and the
\* position of the first token after them.
RECURSIVE SkipWs(_, _, _)
SkipWs(text, i, nls) ==
    IF i <= Len(text) /\ text[i].k = "ws"
    THEN SkipWs(text, i + 1,
                nls + Cardinality({j \in 1..Len(text[i].chars) :
                                     text[i].chars[j] = "nl"}))
    ELSE [next |-> i, nls |-> nls]

\* What ([\d,]+\.?\d*) captures at the start of a number literal: a run of
\* digits and commas, an optional period, a run of digits.
NumCapture(chars) ==
    LET a == RunLen(chars, 1, Digits \cup {","})
        dot == IF a + 1 <= Len(chars) /\ chars[a + 1] = "." THEN 1 ELSE 0
        b == RunLen(chars, a + dot + 1, Digits)
    IN  SubSeq(chars, 1, a + dot + b)

NoMatch == [found |-> FALSE, group |-> <<>>, word |-> ""]

\* The group of a pattern at token j, after the label and the whitespace.
MatchGroup(text, j, isSignal) ==
    IF j > Len(text) THEN NoMatch
    ELSE IF isSignal
    THEN IF text[j].k = "word"
            /\ UpperWord(text[j].name) \in {"BUY", "SELL", "HOLD"}
         THEN [found |-> TRUE, group |-> <<>>, word |-> text[j].name]
         ELSE NoMatch
    ELSE IF text[j].k = "num" /\ RunLen(text[j].chars, 1, Digits \cup {","}) > 0
         THEN [found |-> TRUE, group |-> NumCapture(text[j].chars), word |-> ""]
         ELSE NoMatch

\* Whitespace that may not hold a newline.
MatchWs_SameLineOnly(pat, text, ws, isSignal) ==
    IF ws.nls = 0 THEN MatchGroup(text, ws.next, isSignal) ELSE NoMatch

\* The whitespace of a pattern, ws being the run that follows the label.
MatchWs(pat, text, ws, isSignal) ==
    IF ws.nls >= pat.nls THEN MatchGroup(text, ws.next, isSignal) ELSE NoMatch

\* The pattern tried at token i: the label, the whitespace, the group.
MatchAt(pat, text, i, isSignal) ==
    IF text[i].k = "label" /\ UpperWord(text[i].name) = pat.label
       /\ text[i].bold = pat.bold
    THEN MatchWs(pat, text, SkipWs(text, i + 1, 0), isSignal)
    ELSE NoMatch

\* The leftmost of the positions where the pattern matches.
FirstHit(pat, text, hits, isSignal) ==
    IF hits = {} THEN NoMatch ELSE MatchAt(pat, text, SetMin(hits), isSignal)

\* re.search(pattern, analysis_text, re.IGNORECASE): the leftmost match.
ReSearch(pat, text, isSignal) ==
    FirstHit(pat, text,
             {i \in 1..Len(text) : MatchAt(pat, text, i, isSignal).found},
             isSignal)

\* The commas left in the matched text.
RemoveCommas_Kept(chars) == chars

\* match.group(1).replace(',', '')
RemoveCommas(chars) == SelectSeq(chars, LAMBDA c : c # ",")

RECURSIVE IntOf(_)
IntOf(ds) ==
    IF Len(ds) = 0 THEN 0
    ELSE 10 * IntOf(SubSeq(ds, 1, Len(ds) - 1)) + DigitVal(ds[Len(ds)])

\* float(value_str): ValueError unless the string holds a digit; the value
\* in hundredths.
ParseFloat(chars) ==
    LET a == RunLen(chars, 1, Digits)
        dot == IF a + 1 <= Len(chars) /\ chars[a + 1] = "." THEN 1 ELSE 0
        b == RunLen(chars, a + dot + 1, Digits)
        frac == SubSeq(chars, a + dot + 1, a + dot + b)
        f1 == IF Len(frac) >= 1 THEN DigitVal(frac[1]) ELSE 0
        f2 == IF Len(frac) >= 2 THEN DigitVal(frac[2]) ELSE 0
    IN  IF a + b = 0 \/ a + dot + b # Len(chars)
        THEN [ok |-> FALSE, v |-> 0]
        ELSE [ok |-> TRUE, v |-> 100 * IntOf(SubSeq(chars, 1, a)) + 10 * f1 + f2]

\* Lines 164-179: the conversion of a matched number; the field keeps its
\* value when float() raises ValueError.
Converted(f, cur) == IF f.ok THEN Num(f.v) ELSE cur

\* Lines 159-180: what a match assigns to the field.
Assigned(field, m, cur) ==
    IF field = "signal" THEN Str(UpperWord(m.word))
    ELSE Converted(ParseFloat(RemoveCommas(m.group)), cur)

\* Lines 157-180 for one field: the patterns in order from the k-th on;
\* the first that matches decides the field, and the loop breaks.
RECURSIVE TryPatterns(_, _, _, _)
TryMatch(field, k, text, cur, m) ==
    IF m.found THEN Assigned(field, m, cur)
    ELSE TryPatterns(field, k + 1, text, cur)

TryPatterns(field, k, text, cur) ==
    IF k > Len(patterns[field]) THEN cur
    ELSE TryMatch(field, k, text, cur,
                  ReSearch(patterns[field][k], text, field = "signal"))

\* Lines 103-182: every field from its patterns; probability is never set.
Phase2(text) ==
    [entry |-> TryPatterns("entry", 1, text, None),
     tp1 |-> TryPatterns("tp1", 1, text, None),
     tp2 |-> TryPatterns("tp2", 1, text, None),
     tp3 |-> TryPatterns("tp3", 1, text, None),
     sl |-> TryPatterns("sl", 1, text, None),
     signal |-> TryPatterns("signal", 1, text, None),
     probability |-> None]

\* Lines 96 and 103-182, p1 being the outcome of the try block.
AfterPhase1(p1, text) ==
    CASE p1.outcome = "return" ->
           [raised |-> FALSE, phase2 |-> FALSE, levels |-> p1.levels]
      [] p1.outcome = "fallback" ->
           [raised |-> FALSE, phase2 |-> TRUE, levels |-> Phase2(text)]
      [] OTHER -> [raised |-> TRUE, phase2 |-> FALSE, levels |-> NoLevels]

\* extract_trading_levels(analysis_text), lines 59-182.
extract_trading_levels(text) == AfterPhase1(Phase1(text), text)

(***************************************************************************)
(* The response texts of the model: up to MaxSegs fragments in a row.      *)
(***************************************************************************)
\* {"signal":"buy","entry":100,"stop_loss":95,"tp1":105}
ObjExample ==
    <<LBrace, KV("signal", Str("buy")), KV("entry", Num(10000)),
      KV("stop_loss", Num(9500)), KV("tp1", Num(10500)), RBrace>>

Fragments ==
    <<  <<LBrace>>,
        <<RBrace>>,
        <<KV("signal", Str("Sell"))>>,
        <<KV("signal", None)>>,
        <<KV("entry", Num(10000))>>,
        <<KV("entry", Str("100"))>>,
        <<KV("probability", Num(8500))>>,
        <<KV("tp2", Deep)>>,
        <<KV("tp3", BigInt)>>,
        <<Key("reason")>>,
        ObjExample,
        <<Label("SIGNAL", TRUE), WS(<<" ">>), Word("sell")>>,
        <<Label("ENTRY", TRUE), WS(<<"nl", "nl">>),
          NumTok(<<"1", "2", "3", "4", ".", "5">>)>>,
        <<Label("STOP LOSS", TRUE), WS(<<" ">>),
          NumTok(<<"1", ",", "2", "0", "0", ".", "0", "0">>)>>,
        <<Label("Entry", FALSE), WS(<<" ">>), NumTok(<<",">>)>>,
        <<Label("TP1", FALSE), NumTok(<<"1", "0", "5">>)>>,
        <<Word("text")>>  >>

RECURSIVE Concat(_)
Concat(fs) ==
    IF Len(fs) = 0 THEN <<>> ELSE Fragments[Head(fs)] \o Concat(Tail(fs))

\* **SIGNAL**: SELL\n**ENTRY**:\n\n1234.5\n**STOP LOSS**: 1,200.00
LabelledExample ==
    <<Label("SIGNAL", TRUE), WS(<<" ">>), Word("SELL"), WS(<<"nl">>),
      Label("ENTRY", TRUE), WS(<<"nl", "nl">>),
      NumTok(<<"1", "2", "3", "4", ".", "5">>), WS(<<"nl">>),
      Label("STOP LOSS", TRUE), WS(<<" ">>),
      NumTok(<<"1", ",", "2", "0", "0", ".", "0", "0">>)>>

Texts ==
    {Concat(fs) : fs \in UNION {[1..k -> 1..Len(Fragments)] : k \in 0..MaxSegs}}
        \cup {LabelledExample}

(***************************************************************************)
(* run() of main.py and the calls it makes.                                *)
(***************************************************************************)
\* The (contxt, exchange) pairs run() accepts without ValueError.
RunArgs ==
    {[contxt |-> "crypto", exchange |-> "bybit"],
     [contxt |-> "crypto", exchange |-> "binance"],
     [contxt |-> "forex", exchange |-> "binance"],
     [contxt |-> "forex", exchange |-> "bybit"]}

\* main.py 13-19: the fetcher and the symbol list of each branch.
Fetcher(args) ==
    IF args.contxt = "crypto"
    THEN IF args.exchange = "bybit" THEN "get_bybit_coin_data"
         ELSE "get_coin_data"
    ELSE "get_symbol_data"

SymbolList(args) ==
    CASE Fetcher(args) = "get_bybit_coin_data" -> COINS_BYBIT
      [] Fetcher(args) = "get_coin_data" -> COINS
      [] OTHER -> SYMBOLS

\* What a provider answers for one symbol: the text of its status field
\* (retMsg of Bybit, status of Twelve Data) and its message.  A payload in
\* json_data is [symbol, source, status, message, hasSymbol, hasValues,
\* processed]: hasSymbol says that the key holding the symbol name exists
\* (result.symbol of Bybit, meta.symbol of Twelve Data), processed that
\* values holds the sorted rows with their indicators.
BybitAnswers ==
    {[status |-> "OK", message |-> "OK"],
     [status |-> "Invalid symbol", message |-> "Invalid symbol"],
     [status |-> "Too many visits", message |-> "Too many visits"]}
TwelveAnswers ==
    {[status |-> "ok", message |-> ""],
     [status |-> "error", message |-> "symbol not found"]}

Payload(sym, source, ans, okStatus) ==
    [symbol |-> sym, source |-> source, status |-> ans.status,
     message |-> ans.message, hasSymbol |-> ans.status = okStatus,
     hasValues |-> ans.status = okStatus, processed |-> ans.status = okStatus]

NoError == [type |-> "none", msg |-> "", at |-> "none", payloadMsg |-> ""]
Exc(type, msg, at, payloadMsg) ==
    [type |-> type, msg |-> msg, at |-> at, payloadMsg |-> payloadMsg]

\* The test of bybit.py 46.
BybitOk(ans) == ans.status = "OK"

\* bybit.py 66: raise Exception(f"Error: {json_data[0]['retMsg']}") reads
\* the first payload appended so far, and fails with IndexError when none
\* has been appended.
BybitRaise(json_data, ans) ==
    IF Len(json_data) = 0
    THEN Exc("IndexError", "list index out of range", "fetch", ans.message)
    ELSE Exc("Exception", json_data[1].message, "fetch", ans.message)

\* get_bybit_coin_data, bybit.py 39-67: the loop over the coins from the
\* i-th on, json_data being what was appended before.
RECURSIVE BybitLoop(_, _, _, _)
BybitLoop(coins, answers, i, json_data) ==
    IF i > Len(coins)
    THEN [raised |-> FALSE, exc |-> NoError, at |-> "", data |-> json_data]
    ELSE IF BybitOk(answers[i])
    THEN BybitLoop(coins, answers, i + 1,
                   Append(json_data, Payload(coins[i], "bybit", answers[i], "OK")))
    ELSE [raised |-> TRUE, exc |-> BybitRaise(json_data, answers[i]),
          at |-> coins[i], data |-> <<>>]

get_bybit_coin_data(coins, answers) == BybitLoop(coins, answers, 1, <<>>)

\* get_symbol_data and get_coin_data, data_fetcher.py 42-77 and 79-112:
\* the payload is processed if 'values' in data and data['status'] == 'ok',
\* and appended to json_data in either case.
get_symbol_data(symbols, answers) ==
    [raised |-> FALSE, exc |-> NoError, at |-> "",
     data |-> [i \in 1..Len(symbols) |->
                  Payload(symbols[i], "twelvedata", answers[i], "ok")]]

FetchData(args, answers) ==
    IF Fetcher(args) = "get_bybit_coin_data"
    THEN get_bybit_coin_data(SymbolList(args), answers)
    ELSE get_symbol_data(SymbolList(args), answers)

Answers(args) ==
    IF Fetcher(args) = "get_bybit_coin_data" THEN BybitAnswers
    ELSE TwelveAnswers

\* make_prompt that finds its keys in every payload.
PromptRaises_Never(payload, exchange) == FALSE

\* make_prompt, grok_call.py 7-28: data['result']['symbol'] for the
\* exchange "bybit", data['meta']['symbol'] otherwise, and data['values'];
\* KeyError when the payload lacks the key.
PromptRaises(payload, exchange) ==
    \/ ~payload.hasSymbol
    \/ ~payload.hasValues
    \/ (exchange = "bybit") # (payload.source = "bybit")

\* The responses ask_grok returns in the model.
TickTexts ==
    {<<>>,
     ObjExample,
     <<LBrace, KV("signal", Str("Sell")), RBrace>>,
     <<LBrace, KV("signal", Str("buy")), KV("entry", Str("100")), RBrace>>,
     <<LBrace, KV("tp2", Deep), RBrace>>}

LevelNames == <<"entry", "tp1", "tp2", "tp3", "sl">>

\* f"{value:.2f}" and f"{value:.4f}": only a number can be formatted.
FormatFloatRaises(v) == v.t # "num"

\* charts.py 252-266: a level that is set is drawn, its annotation
\* formatted with :.2f.
HlinesRaise(levels) ==
    \E k \in 1..Len(LevelNames) :
        Truthy(levels[LevelNames[k]]) /\ FormatFloatRaises(levels[LevelNames[k]])

\* charts.py 373-381: when some level is set, every level is interpolated
\* as {entry:.2f if entry else 'N/A'}, where all that follows the colon is
\* the format specification: ValueError for a number, TypeError for None.
LevelsTextRaises(levels) ==
    \E k \in 1..Len(LevelNames) : Truthy(levels[LevelNames[k]])

\* Every level drawn, set or not.
DrawnLevels_All(levels) ==
    {[field |-> LevelNames[k], value |-> levels[LevelNames[k]]] :
        k \in 1..Len(LevelNames)}

\* charts.py 252-266: the horizontal lines of the figure, one for each
\* level that is set, at the level's value.
DrawnLevels(levels) ==
    {[field |-> LevelNames[k], value |-> levels[LevelNames[k]]] :
        k \in {j \in 1..Len(LevelNames) : Truthy(levels[LevelNames[j]])}}

\* What generate_charts returns: a PNG path or a text summary, for a
\* symbol, with the level lines of the figure it was made from.
NoChart == [kind |-> "none", symbol |-> "", drawn |-> {}]

\* charts.py 204-394, x being what extract_trading_levels returned (line
\* 202) and render saying whether the PNG step (lines 310-338) succeeded.
ChartFrom(x, payload, render) ==
    IF x.raised \/ HlinesRaise(x.levels)
    THEN [raised |-> TRUE, rendered |-> "notreached", result |-> NoChart]
    ELSE IF render = "ok"
    THEN [raised |-> FALSE, rendered |-> "ok",
          result |-> [kind |-> "png", symbol |-> payload.symbol,
                      drawn |-> DrawnLevels(x.levels)]]
    ELSE IF LevelsTextRaises(x.levels)
    THEN [raised |-> TRUE, rendered |-> "failed", result |-> NoChart]
    ELSE [raised |-> FALSE, rendered |-> "failed",
          result |-> [kind |-> "summary", symbol |-> payload.symbol,
                      drawn |-> DrawnLevels(x.levels)]]

\* generate_charts, charts.py 184-394.
generate_charts(payload, text, render) ==
    ChartFrom(extract_trading_levels(text), payload, render)

\* SIGNAL_FORMAT.get(key, True) for the level of each name.
FlagOf(flags, name) == IF name = "sl" THEN flags.stoploss ELSE flags[name]

\* The order of the level lines in format_ai_output.
LineOrder == <<"entry", "sl", "tp1", "tp2", "tp3">>

\* The text format_ai_output returns, as the sequence of its pieces.
Piece(k, symbol, field, value, text) ==
    [k |-> k, symbol |-> symbol, field |-> field, value |-> value, text |-> text]
\* f"📊 #{symbol} SIGNALS:\n"
SignalsHeader(symbol) == Piece("signals_header", symbol, "", None, <<>>)
\* a line of signal_text, such as f"🎯 Entry: {entry:.4f}\n"
ValueLine(field, value) == Piece("line", "", field, value, <<>>)
\* the "\n\n" between signal_text and the detailed part
BlankLine == Piece("blank", "", "", None, <<>>)
\* f"🤖 AI Analysis for #{symbol}:\n"
AnalysisHeader(symbol) == Piece("analysis_header", symbol, "", None, <<>>)
\* "🤖 Detailed Analysis:\n"
DetailedHeader == Piece("detailed_header", "", "", None, <<>>)
\* {analysis_text}
Narrative(text) == Piece("narrative", "", "", None, text)

NoFormatted == <<>>

\* LevelLines without the truthiness test on the level.
RECURSIVE LevelLines_NoPresenceCheck(_, _, _)
LevelLines_NoPresenceCheck(levels, flags, k) ==
    IF k > Len(LineOrder) THEN <<>>
    ELSE LET name == LineOrder[k]
         IN  IF FlagOf(flags, name)
             THEN <<ValueLine(name, levels[name])>>
                     \o LevelLines_NoPresenceCheck(levels, flags, k + 1)
             ELSE LevelLines_NoPresenceCheck(levels, flags, k + 1)

\* The level lines of signal_text, charts.py 23-32 and 46-55, from the
\* k-th level on.
RECURSIVE LevelLines(_, _, _)
LevelLines(levels, flags, k) ==
    IF k > Len(LineOrder) THEN <<>>
    ELSE LET name == LineOrder[k]
         IN  IF Truthy(levels[name]) /\ FlagOf(flags, name)
             THEN <<ValueLine(name, levels[name])>>
                     \o LevelLines(levels, flags, k + 1)
             ELSE LevelLines(levels, flags, k + 1)

\* The signal and probability lines, charts.py 19-22 and 42-45.
HeadLines(levels) ==
    (IF Truthy(levels.signal)
     THEN <<ValueLine("signal", levels.signal)>> ELSE <<>>)
    \o (IF Truthy(levels.probability)
        THEN <<ValueLine("probability", levels.probability)>> ELSE <<>>)

\* signal_text, charts.py 18-32 and 41-55.
SignalText(levels, lines, symbol) ==
    <<SignalsHeader(symbol)>> \o HeadLines(levels) \o lines

\* The part of the "both" output after signal_text, charts.py 57, written
\* as the "detailed" output of line 37 is.
BothTail_AsDetailed(text, symbol) ==
    <<BlankLine, AnalysisHeader(symbol), Narrative(text)>>

\* The part of the "both" output after signal_text, charts.py 57.
BothTail(text, symbol) == <<BlankLine, DetailedHeader, Narrative(text)>>

\* charts.py 16-57, x being what extract_trading_levels returned (line 14)
\* and lines the level lines of signal_text.
FormatFrom(x, lines, mode, text, symbol) ==
    IF x.raised THEN [raised |-> TRUE, out |-> NoFormatted]
    ELSE IF mode = "detailed"
    THEN [raised |-> FALSE,
          out |-> <<AnalysisHeader(symbol), Narrative(text)>>]
    ELSE IF \E k \in 1..Len(lines) : FormatFloatRaises(lines[k].value)
    THEN [raised |-> TRUE, out |-> NoFormatted]
    ELSE IF mode = "signal"
    THEN [raised |-> FALSE, out |-> SignalText(x.levels, lines, symbol)]
    ELSE [raised |-> FALSE,
          out |-> SignalText(x.levels, lines, symbol) \o BothTail(text, symbol)]

FormatLevels(x, flags, mode, text, symbol) ==
    FormatFrom(x, LevelLines(x.levels, flags, 1), mode, text, symbol)

\* format_ai_output, charts.py 12-57.
format_ai_output(mode, flags, text, symbol) ==
    FormatLevels(extract_trading_levels(text), flags, mode, text, symbol)

TickIdle ==
    /\ loop = "running" /\ pc = "idle" /\ ticks = 0
    /\ provider = [contxt |-> "crypto", exchange |-> "bybit"]
    /\ data = <<>> /\ idx = 0 /\ analysis = <<>> /\ chartResult = NoChart
    /\ formatted = NoFormatted /\ sent = <<>> /\ error = NoError
    /\ failed = {} /\ lastRender = "none"

(***************************************************************************)
(* SpecExtract: one call of extract_trading_levels.                        *)
(***************************************************************************)
ExtractIdle ==
    /\ xtext = <<>> /\ xpc = "idle" /\ xres = NoLevels /\ xphase2 = FALSE
SeriesIdle ==
    /\ sprov = "bybit" /\ raw = <<>> /\ rawComma = FALSE /\ spc = "idle"
    /\ series = <<>> /\ chartDf = <<>>
ReportIdle ==
    /\ rtext = <<>> /\ rmode = AI_OUTPUT_MODE /\ rflags = SIGNAL_FORMAT
    /\ rparse = "none" /\ rpc = "idle" /\ rout = NoFormatted
    /\ rposts = <<>> /\ rret = FALSE
RenderIdle ==
    /\ gtext = <<>> /\ gpc = "idle" /\ playwright = "none" /\ browser = "none"
    /\ tempHtml = FALSE /\ gresult = NoChart /\ gcalls = 0 /\ leftover = 0

\* self.token_expires_at: None, or the time of expiry.
NoExpiry == [set |-> FALSE, at |-> 0]
ExpiresAt(t) == [set |-> TRUE, at |-> t]
\* The record of one call of an operation: the statement it has reached,
\* the fields of the client and the clock when it was called, the functions
\* _ensure_authenticated went through, the grant types of the token requests
\* they sent and how each was answered ("granted" or "failed"), what
\* _ensure_authenticated returned ("pending" until it has),
\* the number of data or order requests sent and the value returned.
NoCall ==
    [op |-> "none", pc |-> "none", access |-> "none", refresh |-> "none",
     expires |-> NoExpiry, at |-> 0, calls |-> <<>>, tokenRequests |-> <<>>,
     answers |-> <<>>, ensured |-> "pending", requests |-> 0, ret |-> "none"]
AuthIdle ==
    /\ access_token = "none" /\ refresh_token = "none"
    /\ token_expires_at = NoExpiry /\ now = 0 /\ acall = NoCall

XInit ==
    /\ xtext \in Texts
    /\ xpc = "start"
    /\ xres = NoLevels
    /\ xphase2 = FALSE
    /\ TickIdle /\ SeriesIdle /\ ReportIdle /\ RenderIdle /\ AuthIdle

\* Lines 69-101: the JSON attempt.
XPhase1 ==
    /\ xpc = "start"
    /\ LET p1 == Phase1(xtext)
       IN  /\ xpc' = CASE p1.outcome = "return" -> "returned"
                       [] p1.outcome = "fallback" -> "phase2"
                       [] OTHER -> "raised"
           /\ xres' = p1.levels
    /\ UNCHANGED <<xtext, xphase2, tickVars, seriesVars, reportVars,
                   renderVars, authVars>>

\* Lines 103-182: the regex fallback.
XPhase2 ==
    /\ xpc = "phase2"
    /\ xres' = Phase2(xtext)
    /\ xphase2' = TRUE
    /\ xpc' = "returned"
    /\ UNCHANGED <<xtext, tickVars, seriesVars, reportVars,
                   renderVars, authVars>>

XNext == XPhase1 \/ XPhase2

SpecExtract == XInit /\ [][XNext]_vars

(***************************************************************************)
(* Claims about the extractor (checked under SpecExtract).                 *)
(***************************************************************************)
\* The substrings of a text that json.loads accepts as an object.
JsonObjectsIn(text) ==
    {d \in {JsonLoads(SubSeq(text, i, j)) :
              i \in 1..Len(text), j \in 1..Len(text)} : d.ok}

\* The fields of a parsed object read by key; the signal is compared only
\* when the object stores a string under it (or stores nothing).
ReadByKey(dict, levels) ==
    /\ levels.entry = DictGet(dict, "entry")
    /\ levels.sl = DictGet(dict, "stop_loss")
    /\ levels.tp1 = DictGet(dict, "tp1")
    /\ levels.tp2 = DictGet(dict, "tp2")
    /\ levels.tp3 = DictGet(dict, "tp3")
    /\ levels.probability = DictGet(dict, "probability")
    /\ dict["signal"].t = "str" => levels.signal = Str(Upper(dict["signal"].s))

\* C5: whenever the response text contains a substring that parses as a
\* JSON object, the extractor returns the fields read from that object by
\* key and the regex fallback (Phase 2) is never run, whatever the values
\* stored under the object's keys.
C5_JsonObjectSkipsPhase2 ==
    (xpc = "returned" /\ JsonObjectsIn(xtext) # {})
        => /\ ~xphase2
           /\ \E d \in JsonObjectsIn(xtext) : ReadByKey(d.dict, xres)

FieldNames == {"entry", "tp1", "tp2", "tp3", "sl", "signal", "probability"}
AllAbsent(levels) == \A f \in FieldNames : levels[f] = None

\* A text in which Phase 1 finds no parseable object and that holds no label.
Unparseable(text) ==
    /\ ~JsonLoads(JsonMatch(text).str).ok
    /\ Positions(text, "label") = {}

\* C6: for every input text the extractor returns its 7-field result
\* without raising; each field is a value or absent, and empty or
\* unparseable text yields the result with all fields absent.
C6_ExtractorNeverRaises ==
    /\ xpc # "raised"
    /\ xpc = "returned" =>
         /\ DOMAIN xres = FieldNames
         /\ \A f \in FieldNames : xres[f].t \in {"none", "num", "str", "obj"}
         /\ Unparseable(xtext) => AllAbsent(xres)

\* The object Phase 1 handed to the field reads, when json.loads succeeded.
ParsedObject(text) == JsonLoads(JsonMatch(text).str)

\* The key of the parsed object each field is read from.
KeyOf(f) == IF f = "sl" THEN "stop_loss" ELSE f

\* C14: in Phase 1, for each of the seven fields, a key absent from the
\* parsed JSON object yields an absent field in the result, never zero and
\* never any other substituted default value.
C14_AbsentKeyYieldsAbsentField ==
    (xpc = "returned" /\ ~xphase2)
        => \A f \in FieldNames :
              ParsedObject(xtext).dict[KeyOf(f)] = Missing => xres[f] = None

\* C15: in every result the extractor returns, in Phase 1 as in Phase 2,
\* each field lies in its declared domain: signal is BUY, SELL, HOLD or
\* unknown/absent; probability is a number between 0 and 100 or absent;
\* each of entry, stop_loss, tp1, tp2, tp3 is a number or absent.
C15_FieldsInDomain ==
    xpc = "returned"
        => /\ xres.signal \in {None, Str(""), Str("BUY"), Str("SELL"), Str("HOLD")}
           /\ \/ xres.probability = None
              \/ /\ xres.probability.t = "num"
                 /\ xres.probability.n >= 0 /\ xres.probability.n <= 10000
           /\ \A f \in {"entry", "sl", "tp1", "tp2", "tp3"} :
                 xres[f].t \in {"none", "num"}

\* The position of the brace that closes the object opened before
\* position i at the given depth, by a brace-depth scan; 0 when there is
\* none.
RECURSIVE BalancedEnd(_, _, _)
BalancedEnd(text, i, depth) ==
    IF i > Len(text) THEN 0
    ELSE CASE text[i].k = "lbrace" -> BalancedEnd(text, i + 1, depth + 1)
           [] text[i].k = "rbrace" ->
                IF depth = 1 THEN i ELSE BalancedEnd(text, i + 1, depth - 1)
           [] OTHER -> BalancedEnd(text, i + 1, depth)

\* The first balanced {...} substring of a text, <<>> when there is none.
FirstBalanced(text) ==
    IF Positions(text, "lbrace") = {} THEN <<>>
    ELSE IF BalancedEnd(text, SetMin(Positions(text, "lbrace")) + 1, 1) = 0
    THEN <<>>
    ELSE SubSeq(text, SetMin(Positions(text, "lbrace")),
                BalancedEnd(text, SetMin(Positions(text, "lbrace")) + 1, 1))

\* C20: Phase 1 parses the first balanced {...} substring of the text:
\* when that substring is a valid JSON object (whose signal can be read),
\* the fields are taken from it, whatever text with braces follows it and
\* whatever nested braces it holds.
C20_FirstBalancedObjectRead ==
    (xpc = "returned" /\ JsonLoads(FirstBalanced(xtext)).ok
       /\ JsonLoads(FirstBalanced(xtext)).dict["signal"].t \in {"str", "missing"})
        => /\ ~xphase2
           /\ ReadByKey(JsonLoads(FirstBalanced(xtext)).dict, xres)

\* The patterns of a field that match somewhere in the text, by their
\* position in the field's list.
MatchingPatterns(f, text) ==
    {k \in 1..Len(patterns[f]) :
        ReSearch(patterns[f][k], text, f = "signal").found}

\* What the first matching pattern of a field assigns, absent when no
\* pattern of the field matches.
FirstMatchValue(f, text) ==
    IF MatchingPatterns(f, text) = {} THEN None
    ELSE Assigned(f, ReSearch(patterns[f][SetMin(MatchingPatterns(f, text))],
                              text, f = "signal"), None)

\* C21: Phase 2 runs only when the text has no JSON object or the parse of
\* its JSON object fails; then every field takes its value from the first
\* pattern of its list that matches, and no later pattern of the list
\* changes it.
C21_Phase2FirstMatchWins ==
    (xpc = "returned" /\ xphase2)
        => /\ ~JsonMatch(xtext).found \/ ~JsonLoads(JsonMatch(xtext).str).ok
           /\ \A f \in DOMAIN patterns : xres[f] = FirstMatchValue(f, xtext)
           /\ xres.probability = None

NumericFields == {"entry", "tp1", "tp2", "tp3", "sl"}

\* The layouts of the whitespace between a label and its value: on the
\* same line, after one newline, after two newlines.
Layouts == {<<" ">>, <<"nl">>, <<"nl", "nl">>}

\* The text with the whitespace that follows each label laid out as given.
Relayout(text, chars) ==
    [i \in 1..Len(text) |->
        IF i > 1 /\ text[i].k = "ws" /\ text[i - 1].k = "label"
        THEN WS(chars) ELSE text[i]]

\* The text with every label written in lower case.
LowerLabel(name) ==
    CASE UpperWord(name) = "ENTRY" -> "entry"
      [] UpperWord(name) = "SIGNAL" -> "signal"
      [] UpperWord(name) = "STOP LOSS" -> "stop loss"
      [] UpperWord(name) = "SL" -> "sl"
      [] UpperWord(name) = "TP1" -> "tp1"
      [] UpperWord(name) = "TP2" -> "tp2"
      [] UpperWord(name) = "TP3" -> "tp3"
      [] OTHER -> name

LowerCased(text) ==
    [i \in 1..Len(text) |->
        IF text[i].k = "label"
        THEN Label(LowerLabel(text[i].name), text[i].bold) ELSE text[i]]

\* C22: in Phase 2 a labelled numeric value is extracted identically
\* whether it follows its label on the same line or after one or two
\* newlines, and whatever the case of the label; the text with a bold
\* SIGNAL label and SELL, a bold ENTRY label, a blank line and 1234.5, and a
\* bold STOP LOSS label and 1,200.00 gives signal SELL, entry 1234.5 and
\* stop_loss 1200.0.
C22_LayoutAndCaseIndependent ==
    (xpc = "returned" /\ xphase2)
        => /\ \A lay \in Layouts : \A f \in NumericFields :
                 Phase2(Relayout(xtext, lay))[f] = xres[f]
           /\ \A f \in NumericFields : Phase2(LowerCased(xtext))[f] = xres[f]
           /\ xtext = LabelledExample =>
                 /\ xres.signal = Str("SELL")
                 /\ xres.entry = Num(123450)
                 /\ xres.sl = Num(120000)

\* C22 witness: the example text went through Phase 2, its entry read
\* across the blank line.
C22_Witness ==
    /\ xpc = "returned" /\ xphase2 /\ xtext = LabelledExample
    /\ xres.entry = Num(123450)

\* What the first matching pattern of a numeric field captured.
FirstCapture(f, text) ==
    ReSearch(patterns[f][SetMin(MatchingPatterns(f, text))], text, FALSE).group

\* The digits of a captured text and the number they write once the
\* separators are dropped, in hundredths.
DigitsIn(chars) == SelectSeq(chars, LAMBDA c : c \in Digits)
PeriodAt(chars) ==
    IF \E i \in 1..Len(chars) : chars[i] = "."
    THEN SetMin({i \in 1..Len(chars) : chars[i] = "."})
    ELSE Len(chars) + 1
PlainValue(chars) ==
    LET whole == DigitsIn(SubSeq(chars, 1, PeriodAt(chars) - 1))
        frac == DigitsIn(SubSeq(chars, PeriodAt(chars) + 1, Len(chars)))
    IN  100 * IntOf(whole)
          + (IF Len(frac) >= 1 THEN 10 * DigitVal(frac[1]) ELSE 0)
          + (IF Len(frac) >= 2 THEN DigitVal(frac[2]) ELSE 0)

\* C23: in Phase 2 the commas of a matched numeric text are removed before
\* the conversion; a matched text that still does not convert leaves its
\* field absent, no exception leaves the function, and every other field
\* has the value of its own match.
C23_CommasRemovedFailureAbsent ==
    /\ xphase2 => xpc = "returned"
    /\ (xpc = "returned" /\ xphase2)
          => \A f \in NumericFields :
                IF MatchingPatterns(f, xtext) = {} THEN xres[f] = None
                ELSE IF DigitsIn(FirstCapture(f, xtext)) = <<>>
                THEN xres[f] = None
                ELSE xres[f] = Num(PlainValue(FirstCapture(f, xtext)))

\* C23 witness: the entry matched a text without a digit and is absent,
\* the stop loss was read from a text with a thousands separator.
C23_Witness ==
    /\ xpc = "returned" /\ xphase2
    /\ MatchingPatterns("entry", xtext) # {}
    /\ DigitsIn(FirstCapture("entry", xtext)) = <<>> /\ xres.entry = None
    /\ MatchingPatterns("sl", xtext) # {}
    /\ \E i \in 1..Len(FirstCapture("sl", xtext)) :
           FirstCapture("sl", xtext)[i] = ","
    /\ xres.sl = Num(120000)

(***************************************************************************)
(* The per-payload pipeline of the fetchers: get_bybit_coin_data           *)
(* (bybit.py 46-64), get_symbol_data and get_coin_data (data_fetcher.py    *)
(* 51-74, 88-109).                                                         *)
(*                                                                         *)
(* A delivered bar is [ts, units]: its timestamp in whole seconds and the  *)
(* integer part of its close, written "units.50" or, in a payload with     *)
(* decimal commas, "units,50".  A row of df is [ts, close, ...] with close *)
(* in hundredths and one cell per indicator column:                        *)
(*   "absent" the column does not exist yet                                *)
(*   "none"   the column was assigned None (pandas_ta returns None for a   *)
(*            series shorter than the length asked for)                    *)
(*   "nan"    the cell is NaN                                              *)
(*   "val"    the cell holds a number                                      *)
(* and datetime, the type of the datetime cell: "Timestamp" after          *)
(* pd.to_datetime, "str" after dt.strftime.                                *)
(***************************************************************************)
RawBar(ts, units) == [ts |-> ts, units |-> units]

Row(ts, close) ==
    [ts |-> ts, datetime |-> "Timestamp", close |-> close, ema |-> [k \in 1..Len(EMA_PERIODS) |-> "absent"],
     rsi |-> "absent", price_change |-> "absent", price_change_pct |-> "absent",
     volatility |-> "absent", sma_20 |-> "absent"]

\* astype(float) on the price text; with a decimal comma it raises
\* ValueError unless the comma was replaced by a period first (bybit.py 57).
ToFloat(units, comma, replaceComma) ==
    IF comma /\ ~replaceComma THEN [ok |-> FALSE, v |-> 0]
    ELSE [ok |-> TRUE, v |-> 100 * units + 50]

\* df.sort_values('datetime').reset_index(drop=True): ascending by
\* timestamp.  The order among rows of equal timestamp is the one numpy's
\* quicksort leaves, fixed for a given input; the model takes the delivered
\* order.
RECURSIVE SortRange(_, _, _)
SortRange(rows, lo, hi) ==
    IF lo = hi THEN SelectSeq(rows, LAMBDA r : r.ts = lo)
    ELSE LET mid == (lo + hi) \div 2
         IN  SortRange(rows, lo, mid) \o SortRange(rows, mid + 1, hi)

sort_values(rows) ==
    IF Len(rows) = 0 THEN <<>>
    ELSE LET tss == {rows[i].ts : i \in 1..Len(rows)}
         IN  SortRange(rows, SetMin(tss), SetMax(tss))

\* strftime left out: the datetime cells stay Timestamps.
Strftime_Skipped(rows) == rows

\* df['datetime'] = df['datetime'].dt.strftime('%Y-%m-%d %H:%M:%S')
Strftime(rows) ==
    [i \in 1..Len(rows) |-> [rows[i] EXCEPT !.datetime = "str"]]

\* str(item['datetime']): the type of the result, whatever the cell held (a
\* string is returned as it is, a Timestamp as its text).
StrOf(kind) == "str"

\* values[-100:] of make_prompt, grok_call.py 18.
PromptWindow == 100

\* make_prompt, grok_call.py 16-23: recent_values holds the last 100 items
\* of values, the same dicts that data['values'] holds, and each gets
\* item['datetime'] = str(item['datetime']).
make_prompt(values) ==
    [i \in 1..Len(values) |->
        IF i > Len(values) - PromptWindow
        THEN [values[i] EXCEPT !.datetime = StrOf(@)]
        ELSE values[i]]

\* max(EMA_PERIODS)
RECURSIVE SeqMax(_)
SeqMax(q) == IF Len(q) = 1 THEN q[1] ELSE Max(q[1], SeqMax(Tail(q)))
max_period == SeqMax(EMA_PERIODS)

\* ta.ema(close, length): None for a series shorter than length, else NaN
\* before the length-th row (seeded there by the mean of the first rows).
calculate_ema(n, i, length) ==
    IF n < length THEN "none" ELSE IF i >= length THEN "val" ELSE "nan"

\* ta.rsi(close, length): None for a series shorter than length; Wilder's
\* averages of gains and losses exist from row length + 1 on, and the
\* quotient gain / (gain + loss) is NaN while both averages are zero, that
\* is while no close so far differs from the one before it.
calculate_rsi(rows, i, length) ==
    IF Len(rows) < length THEN "none"
    ELSE IF i >= length + 1
            /\ \E j \in 2..i : rows[j].close # rows[j - 1].close
         THEN "val" ELSE "nan"

\* ta.stdev and ta.sma: rolling windows of `length` rows.
Rolling(n, i, length) ==
    IF n < length THEN "none" ELSE IF i >= length THEN "val" ELSE "nan"

\* close.diff() and close.pct_change(): NaN in the first row.
Diff(i) == IF i >= 2 THEN "val" ELSE "nan"

\* add_technical_indicators(df), data_fetcher.py 15-40.
add_technical_indicators(rows) ==
    [i \in 1..Len(rows) |->
        [rows[i] EXCEPT
            !.ema = [k \in 1..Len(EMA_PERIODS) |->
                        calculate_ema(Len(rows), i, EMA_PERIODS[k])],
            !.rsi = calculate_rsi(rows, i, RSI_PERIOD),
            !.price_change = Diff(i),
            !.price_change_pct = Diff(i),
            !.volatility = Rolling(Len(rows), i, VOLATILITY_PERIOD),
            !.sma_20 = Rolling(Len(rows), i, SMA_LENGTH)]]

\* TrimNeeded with the comparison written >= instead of >.
TrimNeeded_AtLeast(n) == n >= max_period

\* The condition of the trim: len(df) > max_period.
TrimNeeded(n) == n > max_period

\* The trim taking its rows from the other end.
Trim_KeepsOldest(rows) ==
    IF TrimNeeded(Len(rows)) THEN SubSeq(rows, 1, Len(rows) - max_period)
    ELSE rows

\* if len(df) > max_period: df = df.iloc[max_period:].reset_index(drop=True)
Trim(rows) ==
    IF TrimNeeded(Len(rows)) THEN SubSeq(rows, max_period + 1, Len(rows))
    ELSE rows

\* df.tail(20)
Tail20(rows) == SubSeq(rows, Max(1, Len(rows) - 19), Len(rows))

\* extract_df without the sort, whatever the exchange.
extract_df_NeverSorts(rows, exchange) == Strftime(rows)

\* extract_df, charts.py 397-428: a new DataFrame is built from the
\* values, its datetime parsed and formatted again, and the rows are sorted
\* again unless the exchange is "bybit".
extract_df(rows, exchange) ==
    IF exchange # "bybit" THEN sort_values(Strftime(rows)) ELSE Strftime(rows)

(***************************************************************************)
(* The payloads of the model: every short sequence of bars, and long       *)
(* sequences around the indicator periods built from a delivery order and  *)
(* a price shape.                                                          *)
(***************************************************************************)
ShortPayloads ==
    UNION {[1..n -> {RawBar(t, u) : t \in 1..MaxTs, u \in 1..MaxPrice}] :
             n \in 0..MaxLen}

LongLens ==
    {RSI_PERIOD - 1, RSI_PERIOD, RSI_PERIOD + 1,
     SMA_LENGTH - 1, SMA_LENGTH, SMA_LENGTH + 1}
        \cup ((max_period - 1)..(max_period + MaxExtra))

Orders == {"asc", "desc", "pairs"}
Shapes == {"flat", "rise", "zigzag", "late"}

OrderTs(order, n, i) ==
    CASE order = "asc" -> i
      [] order = "desc" -> n + 1 - i
      [] OTHER -> (i + 1) \div 2

ShapeUnits(shape, n, i) ==
    CASE shape = "flat" -> 1
      [] shape = "rise" -> i
      [] shape = "zigzag" -> 1 + (i % 2)
      [] OTHER -> IF i = n THEN 2 ELSE 1

LongPayloads ==
    {[i \in 1..n |-> RawBar(OrderTs(o, n, i), ShapeUnits(sh, n, i))] :
        n \in LongLens, o \in Orders, sh \in Shapes}

(***************************************************************************)
(* SpecSeries: one successful payload through the fetcher.                 *)
(***************************************************************************)
SInit ==
    /\ sprov \in {"bybit", "twelvedata"}
    /\ raw \in ShortPayloads \cup LongPayloads
    /\ rawComma \in BOOLEAN
    /\ spc = "fetched"
    /\ series = <<>>
    /\ chartDf = <<>>
    /\ TickIdle /\ ExtractIdle /\ ReportIdle /\ RenderIdle /\ AuthIdle

\* pd.DataFrame(...), pd.to_datetime, sort_values and the float conversion;
\* bybit.py 53 formats the datetime right after the sort.
\* data_fetcher.py 52-59 raises KeyError('datetime') on an empty list of
\* values and ValueError on a decimal comma; bybit.py 47-57 names the
\* columns itself and replaces the comma.
SNormalize ==
    /\ spc = "fetched"
    /\ LET isBybit == sprov = "bybit"
           conv == [i \in 1..Len(raw) |->
                       ToFloat(raw[i].units, rawComma, isBybit)]
           raises == \/ (~isBybit /\ Len(raw) = 0)
                     \/ \E i \in 1..Len(raw) : ~conv[i].ok
       IN  IF raises
           THEN /\ spc' = "raised"
                /\ series' = <<>>
           ELSE /\ spc' = "sorted"
                /\ series' =
                     LET sorted == sort_values([i \in 1..Len(raw) |->
                                                  Row(raw[i].ts, conv[i].v)])
                     IN  IF isBybit THEN Strftime(sorted) ELSE sorted
    /\ UNCHANGED <<sprov, raw, rawComma, chartDf, tickVars, extractVars, reportVars,
                   renderVars, authVars>>

\* df = add_technical_indicators(df)
SIndicators ==
    /\ spc = "sorted"
    /\ series' = add_technical_indicators(series)
    /\ spc' = "indicators"
    /\ UNCHANGED <<sprov, raw, rawComma, chartDf, tickVars, extractVars, reportVars,
                   renderVars, authVars>>

\* The trim, the strftime of data_fetcher.py 71 and
\* data['values'] = df.to_dict('records').
STrim ==
    /\ spc = "indicators"
    /\ series' = IF sprov = "bybit" THEN Trim(series)
                 ELSE Strftime(Trim(series))
    /\ spc' = "done"
    /\ UNCHANGED <<sprov, raw, rawComma, chartDf, tickVars, extractVars, reportVars,
                   renderVars, authVars>>

\* ask_grok, grok_call.py 86: prompt = make_prompt(data, contxt, exchange),
\* which writes into the items of data['values'].
SMakePrompt ==
    /\ spc = "done"
    /\ series' = make_prompt(series)
    /\ spc' = "prompted"
    /\ UNCHANGED <<sprov, raw, rawComma, chartDf, tickVars, extractVars,
                   reportVars,
                   renderVars, authVars>>

\* generate_charts, charts.py 185-188: extract_df, then df.tail(20).
SExtractDf ==
    /\ spc = "prompted"
    /\ chartDf' = Tail20(extract_df(series, sprov))
    /\ spc' = "chart"
    /\ UNCHANGED <<sprov, raw, rawComma, series, tickVars, extractVars, reportVars,
                   renderVars, authVars>>

SNext == SNormalize \/ SIndicators \/ STrim \/ SMakePrompt \/ SExtractDf

SpecSeries == SInit /\ [][SNext]_vars

(***************************************************************************)
(* Claims about the series (checked under SpecSeries).                     *)
(***************************************************************************)
\* The longest configured indicator period.
MaxIndicatorPeriod ==
    Max(max_period, Max(RSI_PERIOD, Max(VOLATILITY_PERIOD, SMA_LENGTH)))

RowDefined(r) ==
    /\ \A k \in 1..Len(EMA_PERIODS) : r.ema[k] = "val"
    /\ r.rsi = "val" /\ r.volatility = "val" /\ r.sma_20 = "val"
    /\ r.price_change = "val" /\ r.price_change_pct = "val"

\* C8: for every series longer than the maximum configured indicator
\* period, every row of the fetcher's output has every indicator column
\* defined.
C8_AllIndicatorsDefined ==
    (spc = "done" /\ Len(raw) > MaxIndicatorPeriod)
        => \A i \in 1..Len(series) : RowDefined(series[i])

\* Number of rows of q that carry the delivered bar b.
CountRows(q, b) ==
    Cardinality({i \in 1..Len(q) :
                   q[i].ts = b.ts /\ q[i].close = 100 * b.units + 50})
CountBars(q, b) == Cardinality({i \in 1..Len(q) : q[i] = b})

Ascending(q) == \A i \in 1..(Len(q) - 1) : q[i].ts <= q[i + 1].ts
StrictlyAscending(q) == \A i \in 1..(Len(q) - 1) : q[i].ts < q[i + 1].ts

\* C9: for every series of at least 1 bar and at most the maximum period,
\* indicator computation and the trim complete without raising and the
\* output holds all input bars, untrimmed and in order, with indicator
\* columns possibly undefined.
C9_ShortSeriesKeptWhole ==
    (Len(raw) >= 1 /\ Len(raw) <= MaxIndicatorPeriod
       /\ spc \in {"sorted", "indicators", "done", "prompted", "chart"})
        => /\ Len(series) = Len(raw)
           /\ \A i \in 1..Len(raw) :
                 CountRows(series, raw[i]) = CountBars(raw, raw[i])
           /\ Ascending(series)

\* C9 witness: a series of exactly max_period bars went through the trim
\* whole, its first row without the longest EMA.
C9_Witness ==
    /\ spc = "done" /\ Len(raw) = max_period /\ Len(series) = max_period
    /\ series[1].ema[Len(EMA_PERIODS)] = "nan"
    /\ series[max_period].ema[Len(EMA_PERIODS)] = "val"

\* C10: after normalization the timestamps of a series are
\* strictly increasing, whatever the delivered order and whether or not
\* the provider delivered duplicate timestamps.
C10_StrictlyIncreasing ==
    spc \in {"sorted", "indicators", "done", "prompted", "chart"}
        => StrictlyAscending(series) /\ StrictlyAscending(chartDf)

\* C17: after indicator computation no consumer changes a symbol's
\* series: the bars and indicator values held in the tick's data are the
\* same before and after prompt construction and chart generation.
C17_ConsumersLeaveSeries ==
    [][(spc \in {"done", "prompted"}) => (series' = series)]_vars

\* C17 witness: the prompt was built from a series of more than 100 rows
\* and the chart rows were drawn from it.
C17_Witness ==
    /\ spc = "chart" /\ Len(series) > PromptWindow
    /\ Len(chartDf) = 20
    /\ \A i \in 1..Len(series) : series[i].datetime = "str"

\* The delivered bars as rows, in the order of their delivery.
RawRows == [i \in 1..Len(raw) |-> Row(raw[i].ts, 100 * raw[i].units + 50)]

SameRows(q, r) ==
    /\ Len(q) = Len(r)
    /\ \A i \in 1..Len(r) :
          Cardinality({j \in 1..Len(q) : q[j] = r[i]})
            = Cardinality({j \in 1..Len(r) : r[j] = r[i]})

Bar(r) == [r EXCEPT !.datetime = "str"]

\* C26: when a series has more than max(EMA_PERIODS) bars, the trim of each
\* fetcher removes exactly the max(EMA_PERIODS) oldest bars and keeps all
\* later bars, in their ascending order and with their indicator values
\* unchanged; the output has n - max(EMA_PERIODS) rows.
C26_TrimDropsOldestWarmup ==
    [][(spc = "indicators" /\ Len(series) > max_period)
         => /\ Len(series') = Len(series) - max_period
            /\ \A i \in 1..Len(series') :
                  Bar(series'[i]) = Bar(series[i + max_period])
            /\ Ascending(series')]_vars

\* C26 witness: a series two bars longer than the longest EMA period was
\* trimmed to its two newest bars, by each kind of fetcher.
C26_Witness ==
    /\ spc = "done" /\ Len(raw) = max_period + 2 /\ Len(series) = 2
    /\ series[2].ts = SetMax({raw[i].ts : i \in 1..Len(raw)})
    /\ series[1].ema[Len(EMA_PERIODS)] = "val"

(***************************************************************************)
(* Spec: the scheduler loop of main.py 49-60 and run(), main.py 11-45.     *)
(* schedule.run_pending() calls run() and lets its exceptions through, so  *)
(* an exception that leaves run() leaves the while True loop as well.      *)
(***************************************************************************)
PostResults == {"ok", "rejected", "raise"}

Init ==
    /\ loop = "running" /\ pc = "idle" /\ ticks = 0
    /\ provider \in RunArgs
    /\ data = <<>> /\ idx = 0 /\ analysis = <<>> /\ chartResult = NoChart
    /\ formatted = NoFormatted /\ sent = <<>> /\ error = NoError
    /\ failed = {} /\ lastRender = "none"
    /\ ExtractIdle /\ SeriesIdle /\ ReportIdle /\ RenderIdle /\ AuthIdle

\* An exception leaves run() while the symbol sym is being handled.
Crash(exc, sym) ==
    /\ loop' = "crashed"
    /\ pc' = "aborted"
    /\ error' = exc
    /\ failed' = failed \cup {sym}

\* run() returns, or goes on to the next symbol of data.
Advance ==
    IF idx < Len(data)
    THEN /\ idx' = idx + 1
         /\ pc' = "ask"
         /\ UNCHANGED data
    ELSE /\ idx' = 0
         /\ pc' = "idle"
         /\ data' = <<>>

\* A scheduled tick: run() is called and fetches the data of every symbol
\* (main.py 13-21).
Tick ==
    /\ loop = "running" /\ pc = "idle" /\ ticks < MaxTicks
    /\ ticks' = ticks + 1
    /\ sent' = <<>>
    /\ analysis' = <<>> /\ chartResult' = NoChart /\ formatted' = NoFormatted
    /\ lastRender' = "none"
    /\ \E answers \in [1..Len(SymbolList(provider)) -> Answers(provider)] :
         LET f == FetchData(provider, answers)
         IN  IF f.raised
             THEN /\ loop' = "crashed" /\ pc' = "aborted" /\ error' = f.exc
                  /\ failed' = {f.at}
                  /\ data' = <<>> /\ idx' = 0
             ELSE /\ data' = f.data
                  /\ failed' = {f.data[i].symbol : i \in
                                   {j \in 1..Len(f.data) : ~f.data[j].processed}}
                  /\ idx' = 1 /\ pc' = "ask"
                  /\ UNCHANGED <<loop, error>>
    /\ UNCHANGED <<provider, extractVars, seriesVars, reportVars,
                   renderVars, authVars>>

\* main.py 25: analysis = ask_grok(data=symbol, ...); the model call
\* either returns a text or raises.
AskGrok ==
    /\ loop = "running" /\ pc = "ask"
    /\ lastRender' = "none"
    /\ \E answer \in TickTexts, modelRaises \in BOOLEAN :
         IF PromptRaises(data[idx], provider.exchange)
         THEN /\ Crash(Exc("KeyError", "", "ask", ""), data[idx].symbol)
              /\ UNCHANGED analysis
         ELSE IF modelRaises
         THEN /\ Crash(Exc("APIError", "", "ask", ""), data[idx].symbol)
              /\ UNCHANGED analysis
         ELSE /\ analysis' = answer
              /\ pc' = "chart"
              /\ UNCHANGED <<loop, error, failed>>
    /\ UNCHANGED <<ticks, provider, data, idx, chartResult, formatted, sent,
                   extractVars, seriesVars, reportVars,
                   renderVars, authVars>>

\* main.py 26: chart_result = generate_charts(symbol, analysis, ...).
GenerateCharts ==
    /\ loop = "running" /\ pc = "chart"
    /\ \E render \in {"ok", "failed"} :
         LET g == generate_charts(data[idx], analysis, render)
         IN  /\ lastRender' = g.rendered
             /\ IF g.raised
                THEN /\ Crash(Exc("ValueError", "", "chart", ""),
                              data[idx].symbol)
                     /\ UNCHANGED chartResult
                ELSE /\ chartResult' = g.result
                     /\ pc' = "format"
                     /\ UNCHANGED <<loop, error, failed>>
    /\ UNCHANGED <<ticks, provider, data, idx, analysis, formatted, sent,
                   extractVars, seriesVars, reportVars,
                   renderVars, authVars>>

\* Every chart result taken for a PNG path.
IsPngPath_Always(chart) == TRUE

\* main.py 35: chart_result.endswith('.png')
IsPngPath(chart) == chart.kind = "png"

\* main.py 29-32: formatted_analysis = format_ai_output(analysis, symbol).
FormatOutput ==
    /\ loop = "running" /\ pc = "format"
    /\ LET f == format_ai_output(AI_OUTPUT_MODE, SIGNAL_FORMAT, analysis,
                                 data[idx].symbol)
       IN  IF f.raised
           THEN /\ Crash(Exc("ValueError", "", "format", ""), data[idx].symbol)
                /\ UNCHANGED formatted
           ELSE /\ formatted' = f.out
                /\ pc' = IF IsPngPath(chartResult) THEN "send_image"
                         ELSE "send_message"
                /\ UNCHANGED <<loop, error, failed>>
    /\ UNCHANGED <<ticks, provider, data, idx, analysis, chartResult, sent,
                   lastRender, extractVars, seriesVars, reportVars,
                   renderVars, authVars>>

Post(kind, sym, summary, body, parseMode, result) ==
    [kind |-> kind, symbol |-> sym, summary |-> summary, body |-> body,
     parse_mode |-> parseMode, accepted |-> result = "ok"]

\* main.py 37: send_image(chart_result), telegram.py 25-34: one post; a
\* rejection is returned, not raised.
SendImage ==
    /\ loop = "running" /\ pc = "send_image"
    /\ \E r \in PostResults :
         IF r = "raise"
         THEN /\ Crash(Exc("RequestException", "", "send_image", ""),
                       data[idx].symbol)
              /\ UNCHANGED sent
         ELSE /\ sent' = Append(sent, Post("image", data[idx].symbol, FALSE,
                                           NoFormatted, "none", r))
              /\ pc' = "send_message"
              /\ failed' = IF r = "ok" THEN failed
                           ELSE failed \cup {data[idx].symbol}
              /\ UNCHANGED <<loop, error>>
    /\ UNCHANGED <<ticks, provider, data, idx, analysis, chartResult,
                   formatted, lastRender, extractVars, seriesVars, reportVars,
                   renderVars, authVars>>

\* send_message whose second attempt keeps the parse_mode of the first.
send_message_KeepsParseMode(sym, summary, body, parseMode, r1, r2) ==
    LET first == Post("message", sym, summary, body, parseMode, r1)
        second == Post("message", sym, summary, body, parseMode, r2)
    IN  CASE r1 = "raise" -> [raised |-> TRUE, posts |-> <<>>, ok |-> FALSE]
          [] r1 = "ok" -> [raised |-> FALSE, posts |-> <<first>>, ok |-> TRUE]
          [] r2 = "raise" -> [raised |-> TRUE, posts |-> <<first>>, ok |-> FALSE]
          [] OTHER -> [raised |-> FALSE, posts |-> <<first, second>>,
                       ok |-> r2 = "ok"]

\* send_message(message, parse_mode), telegram.py 4-23: the posts it makes
\* for the results r1 and r2 of the first and of the second attempt.
send_message(sym, summary, body, parseMode, r1, r2) ==
    LET first == Post("message", sym, summary, body, parseMode, r1)
        second == Post("message", sym, summary, body, "none", r2)
    IN  CASE r1 = "raise" -> [raised |-> TRUE, posts |-> <<>>, ok |-> FALSE]
          [] r1 = "ok" -> [raised |-> FALSE, posts |-> <<first>>, ok |-> TRUE]
          [] r2 = "raise" -> [raised |-> TRUE, posts |-> <<first>>, ok |-> FALSE]
          [] OTHER -> [raised |-> FALSE, posts |-> <<first, second>>,
                       ok |-> r2 = "ok"]

\* main.py 38 and 43: the formatted analysis, after the image or in one
\* message with the text summary; then the next symbol.
SendMessage ==
    /\ loop = "running" /\ pc = "send_message"
    /\ \E r1 \in PostResults, r2 \in PostResults :
         LET m == send_message(data[idx].symbol, ~IsPngPath(chartResult),
                               formatted, "none", r1, r2)
         IN  /\ sent' = sent \o m.posts
             /\ IF m.raised
                THEN /\ Crash(Exc("RequestException", "", "send_message", ""),
                              data[idx].symbol)
                     /\ UNCHANGED <<data, idx>>
                ELSE /\ Advance
                     /\ failed' = IF m.ok THEN failed
                                  ELSE failed \cup {data[idx].symbol}
                     /\ UNCHANGED <<loop, error>>
    /\ UNCHANGED <<ticks, provider, analysis, chartResult, formatted,
                   lastRender, extractVars, seriesVars, reportVars,
                   renderVars, authVars>>

Next ==
    \/ Tick \/ AskGrok \/ GenerateCharts \/ FormatOutput
    \/ SendImage \/ SendMessage

Spec == Init /\ [][Next]_vars

(***************************************************************************)
(* SpecReport: one call of format_ai_output, for each output mode and each *)
(* setting of the inclusion flags, and one call of send_message on the     *)
(* text it returned.                                                       *)
(***************************************************************************)
OutputModes == {"signal", "detailed", "both"}
FlagSettings ==
    [{"entry", "stoploss", "tp1", "tp2", "tp3"} -> BOOLEAN]
ParseModes == {"none", "Markdown", "HTML"}
ReportSymbol == "BTCUSDT"

\* The members of a response object that hold the five levels.
LevelMembers ==
    <<KV("entry", Num(10000)), KV("stop_loss", Num(9500)),
      KV("tp1", Num(10500)), KV("tp2", Num(11000)), KV("tp3", Num(11500))>>

\* {"signal":"buy", ...} with the levels whose keys are in S.
ObjWith(S) ==
    <<LBrace, KV("signal", Str("buy"))>>
        \o SelectSeq(LevelMembers, LAMBDA t : t.name \in S)
        \o <<RBrace>>

ReportTexts ==
    {ObjWith(S) : S \in SUBSET {"entry", "stop_loss", "tp1", "tp2", "tp3"}}
        \cup TickTexts
        \cup {<<LBrace, KV("signal", Str("buy")), KV("entry", Num(0)), RBrace>>,
              <<Label("ENTRY", TRUE), WS(<<" ">>),
                NumTok(<<"1", "2", "3", "4", ".", "5">>)>>}

RInit ==
    /\ rtext \in ReportTexts
    /\ rmode \in OutputModes
    /\ rflags \in FlagSettings
    /\ rparse \in ParseModes
    /\ rpc = "start"
    /\ rout = NoFormatted
    /\ rposts = <<>>
    /\ rret = FALSE
    /\ TickIdle /\ ExtractIdle /\ SeriesIdle /\ RenderIdle /\ AuthIdle

\* formatted_analysis = format_ai_output(analysis, symbol)
RFormat ==
    /\ rpc = "start"
    /\ LET f == format_ai_output(rmode, rflags, rtext, ReportSymbol)
       IN  /\ rpc' = IF f.raised THEN "raised" ELSE "formatted"
           /\ rout' = f.out
    /\ UNCHANGED <<rtext, rmode, rflags, rparse, rposts, rret,
                   tickVars, extractVars, seriesVars,
                   renderVars, authVars>>

\* send_message(formatted_analysis, parse_mode)
RSend ==
    /\ rpc = "formatted"
    /\ \E r1 \in PostResults, r2 \in PostResults :
         LET m == send_message(ReportSymbol, FALSE, rout, rparse, r1, r2)
         IN  /\ rposts' = m.posts
             /\ rret' = m.ok
             /\ rpc' = IF m.raised THEN "send_raised" ELSE "sent"
    /\ UNCHANGED <<rtext, rmode, rflags, rparse, rout,
                   tickVars, extractVars, seriesVars,
                   renderVars, authVars>>

RNext == RFormat \/ RSend

SpecReport == RInit /\ [][RNext]_vars

(***************************************************************************)
(* Claims about the report (checked under SpecReport).                     *)
(***************************************************************************)
Formatted == rpc \in {"formatted", "sent", "send_raised"}

\* The levels extracted from the text being formatted.
ReportLevels == extract_trading_levels(rtext).levels

HasLine(out, name) ==
    \E k \in 1..Len(out) : out[k].k = "line" /\ out[k].field = name

\* C11: in output mode "signal" the line of a trading level (entry, SL,
\* TP1, TP2, TP3) is emitted if and only if the field is present in the
\* extracted signal and its inclusion flag is true.
C11_LineIffPresentAndFlag ==
    (Formatted /\ rmode = "signal")
        => \A k \in 1..Len(LineOrder) :
              HasLine(rout, LineOrder[k])
                 <=> (ReportLevels[LineOrder[k]] # None
                        /\ FlagOf(rflags, LineOrder[k]))

\* C12 as stated: in mode "both" the text equals the mode-"signal" output,
\* then a separating blank line, then the mode-"detailed" output.
C12_BothIsSignalThenDetailed ==
    (Formatted /\ rmode = "both")
        => rout = format_ai_output("signal", rflags, rtext, ReportSymbol).out
                    \o <<BlankLine>>
                    \o format_ai_output("detailed", rflags, rtext,
                                        ReportSymbol).out

\* C12 amended: in mode "both" the text equals the mode-"signal" output,
\* then a separating blank line, then the heading "Detailed Analysis:"
\* (which does not name the symbol) and the raw narrative unmodified.
C12_BothIsSignalThenNarrative ==
    (Formatted /\ rmode = "both")
        => rout = format_ai_output("signal", rflags, rtext, ReportSymbol).out
                    \o <<BlankLine, DetailedHeader, Narrative(rtext)>>

\* C12 witness: a "both" report with level lines before the narrative.
C12_Witness ==
    /\ rpc = "formatted" /\ rmode = "both"
    /\ HasLine(rout, "entry") /\ HasLine(rout, "tp3")
    /\ rout[Len(rout)] = Narrative(rtext)

\* Every level of the extracted signal is a number or absent.
LevelsNumericOrAbsent ==
    /\ ~extract_trading_levels(rtext).raised
    /\ \A k \in 1..Len(LineOrder) :
          ReportLevels[LineOrder[k]].t \in {"none", "num"}

\* C13: format_ai_output never raises because of missing data: for every
\* subset of present and absent fields and for each output mode it returns
\* a text.
C13_NoRaiseOnMissingData ==
    (rpc # "start" /\ LevelsNumericOrAbsent)
        => /\ rpc # "raised"
           /\ Len(rout) > 0

\* C13 witness: a report was formatted from a signal with a level present
\* and a level absent whose flag is set.
C13_Witness ==
    /\ rpc = "formatted" /\ rmode = "signal"
    /\ ReportLevels.entry = None /\ rflags["entry"]
    /\ ReportLevels.tp1 # None /\ HasLine(rout, "tp1")

\* C16: when the channel rejects the first send exactly one retry is made
\* with parse_mode removed and the response returned is that of the last
\* attempt; when the first send is accepted no second send is made; no
\* call posts more than twice.
C16_OneRetryWithoutParseMode ==
    (rpc \in {"sent", "send_raised"})
        => /\ Len(rposts) <= 2
           /\ \A k \in 1..Len(rposts) :
                 rposts[k].kind = "message" /\ rposts[k].body = rout
           /\ Len(rposts) >= 1 =>
                 /\ rposts[1].parse_mode = rparse
                 /\ rposts[1].accepted => Len(rposts) = 1
           /\ Len(rposts) = 2 => rposts[2].parse_mode = "none"
           /\ rpc = "sent" =>
                 /\ Len(rposts) >= 1
                 /\ ~rposts[1].accepted => Len(rposts) = 2
                 /\ rret = rposts[Len(rposts)].accepted

\* C16 witness: a message sent with a parse_mode was rejected and the
\* retry was accepted.
C16_Witness ==
    /\ rpc = "sent" /\ rparse # "none"
    /\ Len(rposts) = 2 /\ ~rposts[1].accepted /\ rret

(***************************************************************************)
(* Claims about the tick (checked under Spec).                             *)
(***************************************************************************)
\* run() has ended: it returned, or an exception left it.
TickOver == pc = "aborted" \/ (pc = "idle" /\ ticks > 0)

\* The report of sym was posted and accepted in this tick.
Delivered(sym) ==
    \E k \in 1..Len(sent) :
        sent[k].kind = "message" /\ sent[k].symbol = sym /\ sent[k].accepted

\* C1: within one tick a failure while fetching, analysing, charting or
\* delivering one symbol does not keep the other symbols of the tick from
\* being processed: when run() has ended, every symbol of the list that
\* did not fail itself has its report delivered.
C1_OtherSymbolsDelivered ==
    TickOver =>
        \A k \in 1..Len(SymbolList(provider)) :
            SymbolList(provider)[k] \notin failed
                => Delivered(SymbolList(provider)[k])

\* C2: after a tick in which some symbol's pipeline failed, the scheduler
\* loop keeps running (so that the next scheduled tick can start).
C2_SchedulerKeepsRunning ==
    (TickOver /\ failed # {}) => loop = "running"

\* C3: a payload whose status field does not indicate success makes the
\* fetch fail with a provider error and is never returned to the caller as
\* an element of the data list.
C3_FailedPayloadNotReturned ==
    \A k \in 1..Len(data) :
        data[k].status = (IF data[k].source = "bybit" THEN "OK" ELSE "ok")

\* C4: the error raised on an unsuccessful provider payload is a provider
\* error that carries the message of that failing payload, whatever the
\* position of the failing symbol and whatever was fetched before it.
C4_ErrorCarriesPayloadMessage ==
    error.at = "fetch"
        => error.type = "Exception" /\ error.msg = error.payloadMsg

\* C7: if PNG rendering fails inside generate_charts the function does not
\* raise but returns a textual summary, for every combination of present
\* and absent levels, and the tick then delivers that summary together
\* with the formatted analysis.
C7_RenderFailureFallsBack ==
    /\ lastRender = "failed"
         => error.at # "chart" /\ chartResult.kind = "summary"
    /\ (lastRender = "failed" /\ error = NoError /\ pc \in {"ask", "idle"})
         => /\ Len(sent) > 0
            /\ sent[Len(sent)].summary
            /\ sent[Len(sent)].body = formatted

\* run() is inside its loop over the symbols.
InLoop == pc \in {"ask", "chart", "format", "send_image", "send_message"}

\* The position in data of the payload of a symbol.
PositionOf(sym) == CHOOSE j \in 1..Len(data) : data[j].symbol = sym

\* C18: within a tick the symbols are processed one at a time (model call,
\* chart, formatting and delivery all completed for one symbol before the
\* next symbol's model call), and the series of a symbol is complete
\* (sorted, indicators computed, trimmed) before the model is called and
\* the signal extracted for it.
C18_SequentialAfterSeries ==
    InLoop =>
        /\ idx \in 1..Len(data)
        /\ pc # "ask" => data[idx].processed
        /\ \A k \in 1..Len(sent) :
              \E j \in 1..idx : data[j].symbol = sent[k].symbol
        /\ \A j \in 1..(idx - 1) :
              \E k \in 1..Len(sent) :
                  sent[k].kind = "message" /\ sent[k].symbol = data[j].symbol
        /\ pc \in {"ask", "chart", "format"} =>
              \A k \in 1..Len(sent) : sent[k].symbol # data[idx].symbol
        /\ \A k \in 1..Len(sent), l \in 1..Len(sent) :
              k < l => PositionOf(sent[k].symbol) <= PositionOf(sent[l].symbol)

\* C18 witness: the report of the first symbol has been posted and the
\* model call of the second is about to be made.
C18_Witness ==
    /\ pc = "ask" /\ idx = 2 /\ Len(sent) >= 1
    /\ sent[Len(sent)].symbol = data[1].symbol
    /\ data[2].processed

\* The level lines of a formatted report, as fields and values.
PrintedLevels(out) ==
    {[field |-> out[i].field, value |-> out[i].value] :
        i \in {j \in 1..Len(out) :
                 out[j].k = "line" /\ out[j].field \in NumericFields}}

CompletedSymbols ==
    IF pc = "idle"
    THEN IF ticks > 0
         THEN {SymbolList(provider)[k] : k \in 1..Len(SymbolList(provider))}
         ELSE {}
    ELSE {data[j].symbol : j \in 1..(idx - 1)}

PostsOf(kind, sym) ==
    {k \in 1..Len(sent) : sent[k].kind = kind /\ sent[k].symbol = sym}

\* One send of the report of sym: one post, or a rejected post and the one
\* retry that follows it; after the image when there is one, and carrying
\* the text summary when there is none.
SentOnce(sym) ==
    LET msgs == PostsOf("message", sym)
        imgs == PostsOf("image", sym)
    IN  /\ Cardinality(msgs) \in {1, 2}
        /\ Cardinality(msgs) = 2 => ~sent[SetMin(msgs)].accepted
        /\ Cardinality({k \in msgs : sent[k].accepted}) <= 1
        /\ \A k \in msgs : sent[k].body = sent[SetMin(msgs)].body
        /\ \A k \in msgs : sent[k].summary = (imgs = {})
        /\ Cardinality(imgs) <= 1
        /\ \A i \in imgs : i < SetMin(msgs)

\* The posts a step adds to the channel.
NewPosts == SubSeq(sent', Len(sent) + 1, Len(sent'))

\* The posts of a step are those of the current symbol: the image only for
\* a PNG path, the message with the report formatted from the symbol's
\* analysis, and with the text summary when the chart result is one.
PostsOfCurrentSymbol ==
    pc \in {"send_image", "send_message"}
        => \A k \in 1..Len(NewPosts) :
              /\ NewPosts[k].symbol = data[idx].symbol
              /\ (NewPosts[k].kind = "image")
                    = (chartResult.kind = "png" /\ pc = "send_image")
              /\ (NewPosts[k].kind = "message")
                    => /\ NewPosts[k].body =
                            format_ai_output(AI_OUTPUT_MODE, SIGNAL_FORMAT,
                                             analysis, data[idx].symbol).out
                       /\ NewPosts[k].summary = (chartResult.kind = "summary")

\* C28: for each symbol whose pipeline completes in a tick, the formatted
\* analysis is sent exactly once and is that symbol's own analysis; when
\* the chart result is a PNG path the image is sent first and the analysis
\* after it, otherwise one message carries the text summary and the
\* analysis, and no image is sent.
C28_ReportSentOncePerSymbol ==
    /\ [](\A sym \in CompletedSymbols : SentOnce(sym))
    /\ [][PostsOfCurrentSymbol]_vars

\* C28 witness: run() returned after one symbol was sent as an image and
\* its report, and another as one message with the text summary, retried
\* once.
C28_Witness ==
    /\ pc = "idle" /\ ticks > 0
    /\ \E a \in CompletedSymbols, b \in CompletedSymbols :
          /\ PostsOf("image", a) # {}
          /\ PostsOf("image", b) = {} /\ Cardinality(PostsOf("message", b)) = 2

(***************************************************************************)
(* SpecRender: the PNG step of generate_charts, charts.py 309-394, one     *)
(* statement at a time.  Every statement of the try block either succeeds  *)
(* or raises; an exception goes to the except clause of line 339, through  *)
(* the exit of the with block when it was raised inside it.                *)
(***************************************************************************)
RenderSymbol == "BTCUSDT"

\* The statements of lines 329-332 on the page, in their order.
PageSteps == <<"new_page", "goto", "wait_for_load_state", "screenshot">>
StepAfter(step) ==
    CASE step = "new_page" -> "goto"
      [] step = "goto" -> "wait_for_load_state"
      [] step = "wait_for_load_state" -> "screenshot"
      [] OTHER -> "close"

GInit ==
    /\ gtext \in TickTexts
    /\ gpc = "start"
    /\ playwright = "none" /\ browser = "none" /\ tempHtml = FALSE
    /\ gresult = NoChart
    /\ gcalls = 1 /\ leftover = 0
    /\ TickIdle /\ ExtractIdle /\ SeriesIdle /\ ReportIdle /\ AuthIdle

\* main.py 26: run() calls generate_charts for the next symbol, after the
\* call for the symbol before it returned.
GCall ==
    /\ gpc = "returned" /\ gcalls < MaxCharts
    /\ gcalls' = gcalls + 1
    /\ leftover' = leftover + (IF tempHtml THEN 1 ELSE 0)
    /\ gtext' \in TickTexts
    /\ gpc' = "start"
    /\ playwright' = "none" /\ browser' = "none" /\ tempHtml' = FALSE
    /\ gresult' = NoChart
    /\ UNCHANGED <<tickVars, extractVars, seriesVars, reportVars, authVars>>

\* sync_playwright().__exit__: the driver is stopped, and a browser it
\* still holds open is closed with it.
WithExit ==
    /\ playwright' = "stopped"
    /\ browser' = IF browser = "open" THEN "closed" ELSE browser

\* Lines 185-307: the figure is built; an exception of
\* extract_trading_levels or of an annotation leaves the function before
\* the try block.
GBuildFigure ==
    /\ gpc = "start"
    /\ gpc' = IF generate_charts([symbol |-> RenderSymbol], gtext, "ok").rendered
                   = "notreached"
              THEN "raised" ELSE "write_html"
    /\ UNCHANGED <<gtext, playwright, browser, tempHtml, gresult, gcalls, leftover>>
    /\ UNCHANGED <<tickVars, extractVars, seriesVars, reportVars, authVars>>

\* Lines 323-324: fig.write_html(temp_html).
GWriteHtml ==
    /\ gpc = "write_html"
    /\ \/ /\ tempHtml' = TRUE /\ gpc' = "sync_playwright"
       \/ /\ UNCHANGED tempHtml /\ gpc' = "except"
    /\ UNCHANGED <<gtext, playwright, browser, gresult, gcalls, leftover>>
    /\ UNCHANGED <<tickVars, extractVars, seriesVars, reportVars, authVars>>

\* Line 327: with sync_playwright() as p.
GStartPlaywright ==
    /\ gpc = "sync_playwright"
    /\ \/ /\ playwright' = "running" /\ gpc' = "launch"
       \/ /\ UNCHANGED playwright /\ gpc' = "except"
    /\ UNCHANGED <<gtext, browser, tempHtml, gresult, gcalls, leftover>>
    /\ UNCHANGED <<tickVars, extractVars, seriesVars, reportVars, authVars>>

\* Line 328: browser = p.chromium.launch(headless=True).
GLaunch ==
    /\ gpc = "launch"
    /\ \/ /\ browser' = "open" /\ gpc' = "new_page" /\ UNCHANGED playwright
       \/ /\ WithExit /\ gpc' = "except"
    /\ UNCHANGED <<gtext, tempHtml, gresult, gcalls, leftover>>
    /\ UNCHANGED <<tickVars, extractVars, seriesVars, reportVars, authVars>>

\* Lines 329-332: new_page, goto, wait_for_load_state, screenshot.
GPageStep ==
    /\ \E k \in 1..Len(PageSteps) : gpc = PageSteps[k]
    /\ \/ /\ gpc' = StepAfter(gpc) /\ UNCHANGED <<playwright, browser>>
       \/ /\ WithExit /\ gpc' = "except"
    /\ UNCHANGED <<gtext, tempHtml, gresult, gcalls, leftover>>
    /\ UNCHANGED <<tickVars, extractVars, seriesVars, reportVars, authVars>>

\* Line 333 and the end of the with block: browser.close(), then the
\* driver is stopped.
GClose ==
    /\ gpc = "close"
    /\ playwright' = "stopped"
    /\ browser' = "closed"
    /\ gpc' = "remove"
    /\ UNCHANGED <<gtext, tempHtml, gresult, gcalls, leftover>>
    /\ UNCHANGED <<tickVars, extractVars, seriesVars, reportVars, authVars>>

\* Lines 336-338: os.remove(temp_html); return png_path.
GRemove ==
    /\ gpc = "remove"
    /\ tempHtml' = FALSE
    /\ gresult' = generate_charts([symbol |-> RenderSymbol], gtext, "ok").result
    /\ gpc' = "returned"
    /\ UNCHANGED <<gtext, playwright, browser, gcalls, leftover>>
    /\ UNCHANGED <<tickVars, extractVars, seriesVars, reportVars, authVars>>

\* Lines 339-394: the except clause writes the HTML chart and returns the
\* text summary, or raises while it builds the summary.
GExcept ==
    /\ gpc = "except"
    /\ LET g == generate_charts([symbol |-> RenderSymbol], gtext, "failed")
       IN  IF g.raised
           THEN gpc' = "raised" /\ UNCHANGED gresult
           ELSE gpc' = "returned" /\ gresult' = g.result
    /\ UNCHANGED <<gtext, playwright, browser, tempHtml, gcalls, leftover>>
    /\ UNCHANGED <<tickVars, extractVars, seriesVars, reportVars, authVars>>

GNext ==
    \/ GCall \/ GBuildFigure \/ GWriteHtml \/ GStartPlaywright \/ GLaunch
    \/ GPageStep \/ GClose \/ GRemove \/ GExcept

SpecRender == GInit /\ [][GNext]_vars

\* C24: when generate_charts is over, by a return or by an exception, and
\* whichever statement of the rendering failed, no browser it launched is
\* still open and no temporary HTML file it wrote remains.
C24_RenderResourcesReleased ==
    /\ gpc \in {"returned", "raised"} => (browser # "open" /\ ~tempHtml)
    /\ leftover = 0

(***************************************************************************)
(* ibkr_api.py: the tokens of the IBKR client and its nine operations.     *)
(* Time is counted in minutes.  A call is followed statement by statement  *)
(* in acall.pc: the operation calls _ensure_authenticated, which returns   *)
(* True, or returns what authenticate or _refresh_token return, and        *)
(* _refresh_token may in turn return what authenticate returns.            *)
(***************************************************************************)
\* Line 127: timedelta(minutes=5).
RefreshMargin == 5
\* Lines 98 and 156: token_data.get('expires_in', 3600), an hour.
DefaultExpiresIn == 60
\* Line 299: the six symbols get_forex_rates asks for by default.
DefaultForexSymbols == 6
\* The clock advances between two calls by one of these steps.
ElapseSteps == {5, 50}

Operations ==
    {"get_account_info", "get_portfolio", "get_forex_contracts",
     "get_market_data", "get_forex_rates", "place_order", "get_orders",
     "cancel_order", "get_trades"}

\* What the token endpoint does with one request: the post raises, the
\* status is not 200, or it is 200 and the body holds an access token or
\* none, a refresh token or none, and an expires_in that is short, an hour,
\* missing, or not a number of seconds.
TokenAnswers ==
    {[kind |-> "raised", access |-> "none", refresh |-> "none",
      expires |-> "missing"],
     [kind |-> "rejected", access |-> "none", refresh |-> "none",
      expires |-> "missing"]}
    \cup [kind : {"ok"}, access : {"none", "tok"}, refresh : {"none", "tok"},
          expires : {"short", "hour", "missing", "bad"}]

\* token_data.get('expires_in', 3600), in minutes.
Lifetime(e) == IF e = "short" THEN ShortExpiresIn ELSE DefaultExpiresIn

\* Line 127: self.token_expires_at and
\* datetime.now() >= self.token_expires_at - timedelta(minutes=5).
TokenDue_AtExpiryOnly(t, exp) == exp.set /\ t >= exp.at
TokenDue(t, exp) == exp.set /\ t >= exp.at - RefreshMargin

\* The value an operation returns when it gives up: False for cancel_order,
\* None for the others.
FailureValue(op) == IF op = "cancel_order" THEN "False" ELSE "None"

\* The first statement of every operation:
\* if not self._ensure_authenticated(): return None.
AfterEnsure_AlwaysSends(ok) == "request"
AfterEnsure(ok) == IF ok THEN "request" ELSE "returned"

\* Lines 94-99 and 152-157: the request is granted when the status is 200
\* and the expiry can be computed.
Granted(ans) == ans.kind = "ok" /\ ans.expires # "bad"

\* A token request of the given grant type was sent and answered.
Requested(call, grant, ans) ==
    [call EXCEPT !.tokenRequests = Append(@, grant),
                 !.answers = Append(@, IF Granted(ans) THEN "granted"
                                       ELSE "failed")]

\* _ensure_authenticated returns ok to the operation that called it.
EnsureReturns(call, ok) ==
    [call EXCEPT !.ensured = IF ok THEN "True" ELSE "False",
                 !.pc = AfterEnsure(ok),
                 !.ret = IF ok THEN @ ELSE FailureValue(call.op)]

\* No call is running.
ClientIdle == acall.pc \in {"none", "returned"}

\* An operation is entered: it is about to call _ensure_authenticated.
Operation(op) ==
    /\ acall' = [NoCall EXCEPT !.op = op, !.pc = "_ensure_authenticated",
                               !.access = access_token,
                               !.refresh = refresh_token,
                               !.expires = token_expires_at, !.at = now]
    /\ UNCHANGED <<access_token, refresh_token, token_expires_at, now>>
    /\ UNCHANGED <<tickVars, extractVars, seriesVars, reportVars, renderVars>>

get_account_info == ClientIdle /\ Operation("get_account_info")
get_portfolio == ClientIdle /\ Operation("get_portfolio")
get_forex_contracts == ClientIdle /\ Operation("get_forex_contracts")
get_market_data == ClientIdle /\ Operation("get_market_data")
get_forex_rates == ClientIdle /\ Operation("get_forex_rates")
place_order == ClientIdle /\ Operation("place_order")
get_orders == ClientIdle /\ Operation("get_orders")
cancel_order == ClientIdle /\ Operation("cancel_order")
get_trades == ClientIdle /\ Operation("get_trades")

\* Lines 116-130.
EnsureAuthenticated ==
    /\ acall.pc = "_ensure_authenticated"
    /\ acall' =
         IF access_token = "none"
         THEN [acall EXCEPT !.pc = "authenticate",
                            !.calls = Append(@, "authenticate")]
         ELSE IF TokenDue(now, token_expires_at)
              THEN [acall EXCEPT !.pc = "_refresh_token",
                                 !.calls = Append(@, "_refresh_token")]
              ELSE EnsureReturns(acall, TRUE)
    /\ UNCHANGED <<access_token, refresh_token, token_expires_at, now>>
    /\ UNCHANGED <<tickVars, extractVars, seriesVars, reportVars, renderVars>>

\* Lines 72-114.  The client assertion cannot be built and nothing is sent,
\* or the token request is sent.  A 200 assigns the two tokens and then the
\* expiry, and an expires_in that timedelta refuses leaves the expiry as it
\* was and ends in the except clause.
Authenticate ==
    /\ acall.pc = "authenticate"
    /\ \/ /\ acall' = EnsureReturns(acall, FALSE)
          /\ UNCHANGED <<access_token, refresh_token, token_expires_at>>
       \/ \E ans \in TokenAnswers :
            /\ IF ans.kind = "ok"
               THEN /\ access_token' = ans.access
                    /\ refresh_token' = ans.refresh
                    /\ token_expires_at' =
                          IF ans.expires = "bad" THEN token_expires_at
                          ELSE ExpiresAt(now + Lifetime(ans.expires))
               ELSE UNCHANGED <<access_token, refresh_token,
                                token_expires_at>>
            /\ acall' = EnsureReturns(
                          Requested(acall, "client_credentials", ans),
                          Granted(ans))
    /\ UNCHANGED now
    /\ UNCHANGED <<tickVars, extractVars, seriesVars, reportVars, renderVars>>

\* Lines 168 and 172: a refresh that failed returns self.authenticate().
RefreshFallback(call) ==
    [call EXCEPT !.pc = "authenticate", !.calls = Append(@, "authenticate")]

\* Lines 132-172.
RefreshToken ==
    /\ acall.pc = "_refresh_token"
    /\ IF refresh_token = "none"
       THEN /\ acall' = RefreshFallback(acall)
            /\ UNCHANGED <<access_token, refresh_token, token_expires_at>>
       ELSE \E ans \in TokenAnswers :
            /\ IF ans.kind = "ok"
               THEN /\ access_token' = ans.access
                    /\ refresh_token' = ans.refresh
                    /\ token_expires_at' =
                          IF ans.expires = "bad" THEN token_expires_at
                          ELSE ExpiresAt(now + Lifetime(ans.expires))
               ELSE UNCHANGED <<access_token, refresh_token,
                                token_expires_at>>
            /\ acall' =
                 IF Granted(ans)
                 THEN EnsureReturns(
                        Requested(acall, "refresh_token", ans), TRUE)
                 ELSE RefreshFallback(
                        Requested(acall, "refresh_token", ans))
    /\ UNCHANGED now
    /\ UNCHANGED <<tickVars, extractVars, seriesVars, reportVars, renderVars>>

\* The requests an operation sends inside its try block: one, or one for
\* each symbol in get_forex_rates (lines 301-319).
RequestsOf(op) == IF op = "get_forex_rates" THEN DefaultForexSymbols ELSE 1

\* The values an operation returns from its try block or its except clause.
ReturnsOf(op) ==
    IF op = "cancel_order" THEN {"True", "False"} ELSE {"value", "None"}

\* The try block of the operation: its requests are sent, the last of them
\* possibly raising, and the operation returns.
SendRequest ==
    /\ acall.pc = "request"
    /\ \E n \in 1..RequestsOf(acall.op), r \in ReturnsOf(acall.op) :
         acall' = [acall EXCEPT !.requests = n, !.ret = r,
                                !.pc = "returned"]
    /\ UNCHANGED <<access_token, refresh_token, token_expires_at, now>>
    /\ UNCHANGED <<tickVars, extractVars, seriesVars, reportVars, renderVars>>

\* Time passes between two calls; the call that returned is over.
Elapse ==
    /\ ClientIdle
    /\ \E d \in ElapseSteps : now + d <= MaxNow /\ now' = now + d
    /\ acall' = NoCall
    /\ UNCHANGED <<access_token, refresh_token, token_expires_at>>
    /\ UNCHANGED <<tickVars, extractVars, seriesVars, reportVars, renderVars>>

AInit ==
    TickIdle /\ ExtractIdle /\ SeriesIdle /\ ReportIdle /\ RenderIdle
    /\ AuthIdle

ANext ==
    \/ get_account_info \/ get_portfolio \/ get_forex_contracts
    \/ get_market_data \/ get_forex_rates \/ place_order \/ get_orders
    \/ cancel_order \/ get_trades
    \/ EnsureAuthenticated \/ Authenticate \/ RefreshToken \/ SendRequest
    \/ Elapse

\* A call that has started goes on: the client runs in one thread and each
\* request is taken to return or to raise.
SpecAuth ==
    /\ AInit /\ [][ANext]_vars
    /\ WF_vars(EnsureAuthenticated) /\ WF_vars(Authenticate)
    /\ WF_vars(RefreshToken) /\ WF_vars(SendRequest)

\* C29: an operation of the client sends a data or order request only in a
\* call in which _ensure_authenticated has returned True; when it returned
\* False the operation has sent nothing and returns False if it is
\* cancel_order and None otherwise.
C29_RequestsOnlyAfterEnsured ==
    /\ (acall.pc = "request" \/ acall.requests > 0) => acall.ensured = "True"
    /\ (acall.pc = "returned" /\ acall.ensured # "True") =>
          /\ acall.ensured = "False"
          /\ acall.requests = 0
          /\ acall.ret = IF acall.op = "cancel_order" THEN "False"
                         ELSE "None"

\* C29: cancel_order has returned False without a request, both the
\* refresh and the authentication that followed it having failed.
C29_Witness ==
    /\ acall.pc = "returned" /\ acall.op = "cancel_order"
    /\ acall.ensured = "False" /\ acall.ret = "False"
    /\ acall.tokenRequests = <<"refresh_token", "client_credentials">>

\* The token the client held when the call began was expired or within five
\* minutes of its expiry.
HeldTokenDue ==
    /\ acall.access # "none" /\ acall.expires.set
    /\ acall.at + 5 >= acall.expires.at

\* The token the client held when the call began was valid for more than
\* five minutes.
HeldTokenFresh ==
    /\ acall.access # "none" /\ acall.expires.set
    /\ acall.at + 5 < acall.expires.at

\* What _ensure_authenticated has done when it has returned, by the state
\* the call began in.
EnsureByCase ==
    /\ acall.access = "none" =>
          /\ acall.calls = <<"authenticate">>
          /\ acall.tokenRequests \in {<<>>, <<"client_credentials">>}
    /\ (HeldTokenDue /\ acall.refresh # "none") =>
          /\ acall.tokenRequests # <<>>
          /\ acall.tokenRequests[1] = "refresh_token"
          /\ IF acall.answers[1] = "granted"
             THEN /\ acall.calls = <<"_refresh_token">>
                  /\ acall.tokenRequests = <<"refresh_token">>
                  /\ acall.ensured = "True"
             ELSE /\ acall.calls = <<"_refresh_token", "authenticate">>
                  /\ acall.tokenRequests \in
                        {<<"refresh_token">>,
                         <<"refresh_token", "client_credentials">>}
    /\ (HeldTokenDue /\ acall.refresh = "none") =>
          /\ acall.calls = <<"_refresh_token", "authenticate">>
          /\ acall.tokenRequests \in {<<>>, <<"client_credentials">>}
    /\ HeldTokenFresh =>
          /\ acall.calls = <<>> /\ acall.tokenRequests = <<>>
          /\ acall.ensured = "True"

====
